---- MODULE Spec2Model ----
(***************************************************************************)
(* Model of the live-view reconciliation code of taro:                     *)
(*   - LiveView (cmd/live.py): the three partitions _active_runs,          *)
(*     _ended_runs, _missing_runs, the event queue and the tick loop;      *)
(*   - listen (cmd/listen.py): observer registration and first poll;       *)
(*   - dash / DashboardScreen (cmd/dash.py, tui/dashboard.py): initial     *)
(*     fetch, mount-time subscription and the event handler.               *)
(* Spec     : the LiveView methods called in any order (store level).      *)
(* SpecRun  : LiveView.run / listen against a backend that emits events.   *)
(* SpecDash : dash + DashboardScreen against the same backend.             *)
(* SpecDrain: the tick loop of LiveView.run under fair scheduling while    *)
(*            running instances write output.                              *)
(* SpecAny  : any one of the commands runs.                                *)
(* SpecStop : stop (cmd/stop.py) over a list of patterns.                  *)
(* SpecApprove: resolve_env_configs of approve (cmd/approve.py).           *)
(* SpecTui  : the selector apps, InstanceScreen and the dashboard          *)
(*            (tui/selector.py, tui/instance_screen.py); SpecTuiFair adds  *)
(*            the fair UI loop.                                            *)
(* SpecTail : tail and TailPrint (cmd/tail.py).                            *)
(* SpecConv : the LiveView store while the environment settles, under a    *)
(*            fair tick loop.                                              *)
(***************************************************************************)
EXTENDS Integers, Sequences, FiniteSets

VARIABLES
    active_runs,    \* LiveView._active_runs  : InstanceID -> JobRun
    ended_runs,     \* LiveView._ended_runs   : InstanceID -> (JobRun, monotonic ts)
    missing_runs,   \* LiveView._missing_runs : InstanceID -> first_missing_at
    last_poll,      \* LiveView._last_poll
    now,            \* time.monotonic()
    op,             \* history: the last method applied and its argument
    before,         \* history: key sets of the partitions when that method was called, ids missing for a poll interval
    repeat,         \* history: that call repeated the previous call (same method, same argument)
    cmd,            \* the command that runs: "live" or "listen" (SpecRun)
    pc,             \* position of the command's main thread
    backend,        \* the environment: stage of every instance it knows
    observer,       \* the command's handler is registered with conn.notifications
    event_queue,    \* LiveView._event_queue / listen's event_queue
    first,          \* local of _drain_events
    display,        \* the table last given to the Live display
    printed,        \* listen: the events printed so far
    snap_taken,     \* history: the first get_active_runs call has been issued
    missed,         \* history: events emitted after that call and not enqueued
    exc,            \* the exception raised in run and not caught so far (None when none)
    removals,       \* history: number of remove_observer_all_events calls
    tick_log,       \* history: root-phase ENDED events applied and ids polled in the current tick
    dpc,            \* position of the dash command / DashboardScreen (SpecDash)
    dash_instances, \* dash: instances returned by conn.get_instances
    dash_history,   \* dash: runs returned by conn.read_history_runs
    instances,      \* DashboardScreen._instances (keys)
    live_runs,      \* DashboardScreen._live_runs
    history_runs,   \* DashboardScreen._history_runs
    env_handler,    \* DashboardScreen._env_handler is registered
    ui_queue,       \* events scheduled on the UI loop by call_from_thread
    selected_key,   \* DashboardScreen._selected_key
    active_table,   \* rows of #active-table
    history_table,  \* rows of #history-table
    stop_pc,        \* position of the stop command (SpecStop)
    force,          \* stop: the --force option
    patterns,       \* stop: instance_patterns still to be processed
    stop_instances, \* stop: instances of the current pattern still to be stopped
    inst_state,     \* stop: state of every instance of the environment
    total_stopped,  \* stop: total_stopped
    fetched,        \* history: per processed pattern, the instances returned and whether they were to be stopped
    stop_log,       \* history: the stop() calls made, with their outcome
    ap_pc,          \* position of the approve command (SpecApprove)
    env_ids,        \* approve: the environment ids given with --env
    config_file,    \* the environment configuration file exists
    configured,     \* the environment ids the configuration file defines
    env_configs,    \* approve: outcome of resolve_env_configs
    selector,       \* the selector app that runs: "live" (_LiveSelectorApp) or "combined" (_CombinedSelectorApp); its
                    \* _instances, _live_runs, _history_runs, _env_handler and tables are held in the variables of the
                    \* same names above (SpecTui)
    sel_pc,         \* position of the selector app
    runs,           \* _LiveSelectorApp._runs
    sel_table,      \* rows of the DataTable of _LiveSelectorApp
    env_adds,       \* history: number of add_observer_all_events calls of the view
    env_removals,   \* history: number of remove_observer_all_events calls of the view
    scr_pc,         \* position of the instance command / InstanceScreen
    scr_live,       \* InstanceScreen._live
    scr_instance,   \* InstanceScreen._instance (its id; None for a historical screen)
    scr_job_run,    \* InstanceScreen._job_run
    phase_handler,  \* InstanceScreen._phase_handler is set and registered
    lifecycle_handler, \* InstanceScreen._lifecycle_handler is set and registered
    scr_adds,       \* history: number of add_observer_phase / add_observer_lifecycle calls
    scr_removals,   \* history: number of remove_observer_phase / remove_observer_lifecycle calls
    scr_queue,      \* events scheduled on the UI loop by the handlers of InstanceScreen
    tail_pc,        \* position of the main thread of the tail command (SpecTail)
    follow,         \* tail: the --follow option
    tail_state,     \* tail: state of every instance of the environment
    output,         \* tail: number of output lines every instance has written (their ordinals are 1..n)
    tail_observer,  \* tail: tail_print is registered with conn.add_observer_output
    conn_open,      \* tail: conn.open() has returned and conn.close() was not called
    tail_events,    \* tail: output events delivered to observer threads, waiting in instance_output_update
    tail_instances, \* tail: instances returned by conn.get_instances whose tail is still to be read
    instance_to_last_line, \* tail: the local instance_to_last_line
    last_printed_instance, \* tail: the local last_printed_instance
    latch,          \* TailPrint.latch is set
    tp_last_line,   \* TailPrint.instance_to_last_line
    tp_last_printed, \* TailPrint.last_printed_instance
    tail_printed,   \* history: what was printed, in order (ordinal 0 is an instance header)
    at_open,        \* history: number of lines every instance had written when the connector was opened
    tail_fetched,   \* history: instances returned by conn.get_instances
    tail_skipped,   \* history: events instance_output_update returned on without printing
    steady          \* from some point on (on) every poll returns steady.runs and no event arrives; history: the key
                    \* sets at that point (was) and the ids whose ended entry was removed by _prune_ended (SpecConv)

store == <<active_runs, ended_runs, missing_runs>>
hist == <<op, before, repeat>>
runvars == <<cmd, pc, backend, observer, event_queue, first, display, printed, snap_taken, missed,
             exc, removals, tick_log>>
dashrest == <<dpc, dash_instances, dash_history, instances, live_runs, history_runs, env_handler,
              selected_key, active_table, history_table>>
dashvars == <<dashrest, ui_queue>>
stopvars == <<stop_pc, force, patterns, stop_instances, inst_state, total_stopped, fetched, stop_log>>
apvars == <<ap_pc, env_ids, config_file, configured, env_configs>>
tailvars == <<tail_pc, follow, tail_state, output, tail_observer, conn_open, tail_events, tail_instances,
              instance_to_last_line, last_printed_instance, latch, tp_last_line, tp_last_printed,
              tail_printed, at_open, tail_fetched, tail_skipped>>
convvars == <<steady>>
cmdvars == <<stopvars, apvars, tailvars, convvars>>
selvars == <<selector, sel_pc, runs, sel_table, env_adds, env_removals>>
scrrest == <<scr_pc, scr_live, scr_instance, scr_job_run, phase_handler, lifecycle_handler,
             scr_adds, scr_removals>>
scrvars == <<scrrest, scr_queue>>
tuivars == <<selvars, scrvars>>
extvars == <<cmdvars, tuivars>>
liveview == <<store, last_poll, now, hist, runvars, dashvars>>
others_stop == <<liveview, apvars, tailvars, convvars, tuivars>>
others_approve == <<liveview, stopvars, tailvars, convvars, tuivars>>
others_tail == <<liveview, stopvars, apvars, convvars, tuivars>>
others_conv == <<hist, runvars, dashvars, stopvars, apvars, tailvars, tuivars>>
others_dash == <<store, last_poll, now, hist, runvars, cmdvars, scrvars>>
others_screen == <<store, last_poll, now, hist, runvars, dashvars, cmdvars, selvars>>
vars == <<active_runs, ended_runs, missing_runs, last_poll, now, op, before, repeat,
          cmd, pc, backend, observer, event_queue, first, display, printed, snap_taken, missed,
          exc, removals, tick_log,
          dpc, dash_instances, dash_history, instances, live_runs, history_runs, env_handler,
          ui_queue, selected_key, active_table, history_table, extvars>>

(***************************************************************************)
(* Bounds and program constants                                            *)
(***************************************************************************)
MaxTime == 11
MaxQueue == 3

ENDED_RETENTION_SECONDS == 10
MISSING_GRACE_SECONDS == 5
POLL_INTERVAL_SECONDS == 10

None == "None"

\* Instance ids known to the backend; run_match accepts MatchedIds only.
Ids == {"a", "x"}
MatchedIds == {"a"}
Stage == {"CREATED", "RUNNING", "ENDED"}

JobRun == [instance_id : Ids, stage : Stage]

(***************************************************************************)
(* dict helpers                                                            *)
(***************************************************************************)
Keys(d) == DOMAIN d
EmptyDict == [k \in {} |-> None]
\* Nothing applied and nothing polled yet in this tick.
EmptyLog == [ended |-> EmptyDict, due |-> FALSE, polled |-> {}]
Pop(d, k) == [x \in (DOMAIN d) \ {k} |-> d[x]]
Put(d, k, v) == [x \in (DOMAIN d) \cup {k} |-> IF x = k THEN v ELSE d[x]]

(***************************************************************************)
(* Events delivered by the backend notifications                           *)
(***************************************************************************)
\* getattr(event, 'job_run', None) is not None
HasJobRun(e) == "job_run" \in DOMAIN e

\* Mutant: every phase transition to ENDED counts, root or not.
IsRootEnded_anyphase(e) ==
    e.cls = "InstancePhaseEvent" /\ e.new_stage = "ENDED"

\* isinstance(event, InstancePhaseEvent) and event.is_root_phase and
\* event.new_stage == Stage.ENDED
IsRootEnded(e) ==
    e.cls = "InstancePhaseEvent" /\ e.is_root_phase /\ e.new_stage = "ENDED"

\* A root-phase event carries the run's own stage; a child-phase event is
\* emitted while the run is RUNNING.
PhaseEvents ==
    {[cls |-> "InstancePhaseEvent", job_run |-> r, is_root_phase |-> TRUE, new_stage |-> r.stage] :
        r \in JobRun}
    \cup
    {[cls |-> "InstancePhaseEvent", job_run |-> r, is_root_phase |-> FALSE, new_stage |-> s] :
        r \in {q \in JobRun : q.stage = "RUNNING"}, s \in {"RUNNING", "ENDED"}}
LifecycleEvents ==
    {[cls |-> "InstanceLifecycleEvent", job_run |-> r, new_stage |-> r.stage] : r \in JobRun}
\* Output events carry no job_run attribute.
OutputEvents ==
    {[cls |-> "InstanceOutputEvent", instance |-> i] : i \in Ids}

\* The instance id an event is about.
EventId(e) == IF HasJobRun(e) THEN e.job_run.instance_id ELSE e.instance

\* Events of matched instances, and of the unmatched one a root-phase ENDED
\* and a lifecycle RUNNING event.
Events ==
    {e \in PhaseEvents \cup LifecycleEvents \cup OutputEvents : EventId(e) \in MatchedIds}
    \cup {e \in PhaseEvents : EventId(e) \notin MatchedIds /\ IsRootEnded(e)}
    \cup {e \in LifecycleEvents : EventId(e) \notin MatchedIds /\ e.new_stage = "RUNNING"}

\* Mutant: the filter accepts every run.
run_match_any(job_run) == TRUE

\* self._run_match(job_run)
run_match(job_run) == job_run.instance_id \in MatchedIds

\* Results of conn.get_active_runs(self._run_match): runs with distinct ids,
\* all accepted by run_match (a run that has ended is reported until the
\* backend has detached it).
ActiveRunsResults ==
    {rs \in SUBSET {r \in JobRun : run_match(r)} :
        \A r1, r2 \in rs : r1.instance_id = r2.instance_id => r1 = r2}

PolledIds(rs) == {r.instance_id : r \in rs}

\* polled = {run.instance_id: run for run in ...}
PolledDict(rs) ==
    [i \in {r.instance_id : r \in rs} |-> CHOOSE r \in rs : r.instance_id = i]

(***************************************************************************)
(* LiveView._refresh_active_runs                                           *)
(***************************************************************************)
\* for iid, run in polled.items(): self._active_runs[iid] = run
UpsertPolled(active, polled) ==
    [i \in Keys(active) \cup Keys(polled) |->
        IF i \in Keys(polled) THEN polled[i] ELSE active[i]]

\* Mutant: a reported id keeps its missing entry.
ClearPolled_kept(missing, polled) == missing

\* ... self._missing_runs.pop(iid, None)
ClearPolled(missing, polled) ==
    [i \in Keys(missing) \ Keys(polled) |-> missing[i]]

\* Mutant: first_missing_at is overwritten at every poll.
TrackMissing_restamp(active, missing, polled, t) ==
    [i \in Keys(missing) \cup (Keys(active) \ Keys(polled)) |-> t]

\* for iid in list(self._active_runs): if iid not in polled and iid not in
\* self._missing_runs: self._missing_runs[iid] = self._last_poll
TrackMissing(active, missing, polled, t) ==
    [i \in Keys(missing) \cup (Keys(active) \ Keys(polled)) |->
        IF i \in Keys(missing) THEN missing[i] ELSE t]

\* Mutant: the grace window is compared with > instead of >=.
GraceExpired_strict(missing, t) ==
    {i \in Keys(missing) : t - missing[i] > MISSING_GRACE_SECONDS}

\* Mutant: every missing id is evicted without a grace window.
GraceExpired_eager(missing, t) == Keys(missing)

\* Mutant: an id is evicted only when it has been missing for more than a
\* poll interval.
GraceExpired_long(missing, t) ==
    {i \in Keys(missing) : t - missing[i] > POLL_INTERVAL_SECONDS}

\* if self._last_poll - missing_since >= MISSING_GRACE_SECONDS
GraceExpired(missing, t) ==
    {i \in Keys(missing) : t - missing[i] >= MISSING_GRACE_SECONDS}

RefreshActiveRuns(rs) ==
    LET polled == PolledDict(rs)
        a1 == UpsertPolled(active_runs, polled)
        m1 == ClearPolled(missing_runs, polled)
        m2 == TrackMissing(a1, m1, polled, now)
        gone == GraceExpired(m2, now)
    IN  /\ last_poll' = now
        /\ active_runs' = [i \in Keys(a1) \ gone |-> a1[i]]
        /\ missing_runs' = [i \in Keys(m2) \ gone |-> m2[i]]
        /\ UNCHANGED <<ended_runs>>

(***************************************************************************)
(* LiveView._process_event                                                 *)
(***************************************************************************)
\* Mutant: the guard against ended ids is dropped.
NotEnded_dropped(ended, iid) == TRUE

\* elif job_run.instance_id not in self._ended_runs
NotEnded(ended, iid) == iid \notin Keys(ended)

ProcessEvent(event) ==
    LET job_run == event.job_run IN
    IF ~HasJobRun(event) THEN UNCHANGED store
    ELSE IF ~run_match(job_run) THEN UNCHANGED store
    ELSE IF IsRootEnded(event) THEN
        /\ active_runs' = Pop(active_runs, job_run.instance_id)
        /\ missing_runs' = Pop(missing_runs, job_run.instance_id)
        /\ ended_runs' = Put(ended_runs, job_run.instance_id, <<job_run, now>>)
    ELSE IF NotEnded(ended_runs, job_run.instance_id) THEN
        /\ active_runs' = Put(active_runs, job_run.instance_id, job_run)
        /\ missing_runs' = Pop(missing_runs, job_run.instance_id)
        /\ UNCHANGED ended_runs
    ELSE UNCHANGED store

(***************************************************************************)
(* LiveView._prune_ended                                                   *)
(***************************************************************************)
\* Mutant: an ended entry is retained for ever.
Retained_forever(ended, t) == Keys(ended)

\* if now - ts < ENDED_RETENTION_SECONDS
Retained(ended, t) ==
    {i \in Keys(ended) : t - ended[i][2] < ENDED_RETENTION_SECONDS}

PruneEnded ==
    /\ ended_runs' = [i \in Retained(ended_runs, now) |-> ended_runs[i]]
    /\ UNCHANGED <<active_runs, missing_runs>>

(***************************************************************************)
(* LiveView._sorted_runs / _build_table                                    *)
(***************************************************************************)
\* sort_runs: the ids of a set in the order of the sort option.
IdOrder == <<"a", "x">>
SeqOfIds(S) == SelectSeq(IdOrder, LAMBDA i : i \in S)

\* active + retained: one row per entry of _active_runs, then one per entry
\* of _ended_runs.
SortedRuns ==
    LET act == SeqOfIds(Keys(active_runs))
        ret == SeqOfIds(Keys(ended_runs))
    IN  [k \in 1..Len(act) |-> active_runs[act[k]]]
            \o [k \in 1..Len(ret) |-> ended_runs[ret[k]][1]]

\* Rows of the table: (instance id, run, dim style).
BuildTable ==
    [k \in 1..Len(SortedRuns) |->
        [id |-> SortedRuns[k].instance_id,
         run |-> SortedRuns[k],
         dim |-> SortedRuns[k].instance_id \in Keys(ended_runs)]]

RowIds(table) == {table[k].id : k \in 1..Len(table)}

(***************************************************************************)
(* Store-level specification: the methods of LiveView applied in any order *)
(* at any monotonic time.                                                  *)
(***************************************************************************)
KeySets == [active |-> Keys(active_runs), missing |-> Keys(missing_runs), ended |-> Keys(ended_runs)]

\* The ids that have been recorded as missing for at least d seconds.
MissingFor(d) == {i \in Keys(missing_runs) : now - missing_runs[i] >= d}

\* History of a call of method kind with argument arg.
Record(kind, arg) ==
    /\ op' = [kind |-> kind, arg |-> arg]
    /\ before' = [active |-> KeySets.active, missing |-> KeySets.missing, ended |-> KeySets.ended,
                  aged |-> MissingFor(POLL_INTERVAL_SECONDS)]
    /\ repeat' = (op = [kind |-> kind, arg |-> arg])

Tick ==
    /\ now < MaxTime
    /\ now' = now + 1
    /\ UNCHANGED <<store, last_poll, hist, runvars, dashvars, extvars>>

ApplyEvent ==
    \E e \in Events :
        /\ ProcessEvent(e)
        /\ Record("event", e)
        /\ UNCHANGED <<last_poll, now, runvars, dashvars, extvars>>

ApplyPoll ==
    \E rs \in ActiveRunsResults :
        /\ RefreshActiveRuns(rs)
        /\ Record("poll", rs)
        /\ UNCHANGED <<now, runvars, dashvars, extvars>>

Sweep ==
    /\ PruneEnded
    /\ Record("prune", None)
    /\ UNCHANGED <<last_poll, now, runvars, dashvars, extvars>>

\* LiveView.__init__
InitStore ==
    /\ active_runs = EmptyDict
    /\ ended_runs = EmptyDict
    /\ missing_runs = EmptyDict
    /\ last_poll = 0
    /\ now = 0

InitHist ==
    /\ op = [kind |-> "init", arg |-> None]
    /\ before = [active |-> {}, missing |-> {}, ended |-> {}, aged |-> {}]
    /\ repeat = FALSE

\* No command is running.
IdleRun ==
    /\ cmd = None
    /\ pc = "idle"
    /\ backend = [i \in MatchedIds |-> "NONE"]
    /\ observer = FALSE
    /\ event_queue = <<>>
    /\ first = TRUE
    /\ display = <<>>
    /\ printed = <<>>
    /\ snap_taken = FALSE
    /\ missed = 0
    /\ exc = None
    /\ removals = 0
    /\ tick_log = EmptyLog

\* No dashboard is running.
IdleDash ==
    /\ dpc = "idle"
    /\ dash_instances = {}
    /\ dash_history = {}
    /\ instances = {}
    /\ live_runs = EmptyDict
    /\ history_runs = EmptyDict
    /\ env_handler = FALSE
    /\ ui_queue = <<>>
    /\ selected_key = None
    /\ active_table = EmptyDict
    /\ history_table = EmptyDict

\* No stop command is running.
IdleStop ==
    /\ stop_pc = "idle"
    /\ force = FALSE
    /\ patterns = <<>>
    /\ stop_instances = <<>>
    /\ inst_state = [i \in {} |-> None]
    /\ total_stopped = 0
    /\ fetched = <<>>
    /\ stop_log = <<>>

\* No approve command is running.
IdleApprove ==
    /\ ap_pc = "idle"
    /\ env_ids = {}
    /\ config_file = FALSE
    /\ configured = {}
    /\ env_configs = None

\* The _job_run of a screen that has not been constructed.
NoRun == [instance_id |-> None, stage |-> None]

\* No selector app is running.
IdleSel ==
    /\ selector = None
    /\ sel_pc = "idle"
    /\ runs = EmptyDict
    /\ sel_table = EmptyDict
    /\ env_adds = 0
    /\ env_removals = 0

\* No InstanceScreen is shown.
IdleScr ==
    /\ scr_pc = "idle"
    /\ scr_live = FALSE
    /\ scr_instance = None
    /\ scr_job_run = NoRun
    /\ phase_handler = FALSE
    /\ lifecycle_handler = FALSE
    /\ scr_adds = [phase |-> 0, lifecycle |-> 0]
    /\ scr_removals = [phase |-> 0, lifecycle |-> 0]
    /\ scr_queue = <<>>

\* The tail command is not running.
IdleTail ==
    /\ tail_pc = "idle"
    /\ follow = FALSE
    /\ tail_state = [i \in Ids |-> "none"]
    /\ output = [i \in Ids |-> 0]
    /\ tail_observer = FALSE
    /\ conn_open = FALSE
    /\ tail_events = <<>>
    /\ tail_instances = <<>>
    /\ instance_to_last_line = EmptyDict
    /\ last_printed_instance = None
    /\ latch = FALSE
    /\ tp_last_line = EmptyDict
    /\ tp_last_printed = None
    /\ tail_printed = <<>>
    /\ at_open = [i \in Ids |-> 0]
    /\ tail_fetched = {}
    /\ tail_skipped = {}

\* The environment has not settled.
Unsettled == [on |-> FALSE, runs |-> {}, was |-> [active |-> {}, missing |-> {}, ended |-> {}], pruned |-> {}]
IdleConv == steady = Unsettled

\* None of the other commands is running.
IdleCmds == IdleStop /\ IdleApprove /\ IdleTail /\ IdleConv
IdleExt == IdleCmds /\ IdleSel /\ IdleScr

Init == InitStore /\ InitHist /\ IdleRun /\ IdleDash /\ IdleExt

Next == Tick \/ ApplyEvent \/ ApplyPoll \/ Sweep

Spec == Init /\ [][Next]_vars

(***************************************************************************)
(* The backend: every instance goes NONE -> CREATED -> RUNNING -> ENDED -> *)
(* DETACHED, or crashes from RUNNING to CRASHED without any event.  The    *)
(* notifications are delivered to the registered observers.                *)
(***************************************************************************)
Snap(i) == [instance_id |-> i, stage |-> backend[i]]
RunAt(i, s) == [instance_id |-> i, stage |-> s]

LifecycleEvent(i, s) ==
    [cls |-> "InstanceLifecycleEvent", job_run |-> RunAt(i, s), new_stage |-> s]
RootPhaseEvent(i, s) ==
    [cls |-> "InstancePhaseEvent", job_run |-> RunAt(i, s), is_root_phase |-> TRUE, new_stage |-> s]

\* add_observer_all_events receives every event, add_observer_lifecycle the
\* lifecycle events only.
Delivered(evs) ==
    IF cmd = "listen" THEN SelectSeq(evs, LAMBDA e : e.cls = "InstanceLifecycleEvent") ELSE evs

\* instance.notifications of the instance InstanceScreen shows: phase events
\* go to the registered phase handler, lifecycle events to the registered
\* lifecycle handler, each scheduling its callback with call_from_thread.
ToScreen(evs) ==
    SelectSeq(evs, LAMBDA e :
        /\ HasJobRun(e)
        /\ e.job_run.instance_id = scr_instance
        /\ \/ e.cls = "InstancePhaseEvent" /\ phase_handler
           \/ e.cls = "InstanceLifecycleEvent" /\ lifecycle_handler)

\* Mutant: LiveView's handler applies the event on the notification thread
\* instead of enqueuing it.
Notify_inline(evs) ==
    /\ IF observer /\ cmd = "live" THEN ProcessEvent(evs[1]) ELSE UNCHANGED store
    /\ event_queue' = event_queue
    /\ missed' = missed
    /\ ui_queue' = IF env_handler THEN ui_queue \o evs ELSE ui_queue
    /\ scr_queue' = scr_queue \o ToScreen(evs)
    /\ UNCHANGED <<dashrest, cmdvars, selvars, scrrest>>

\* handler = lambda e: self._event_queue.put(e), called for each event when
\* the handler is registered; the dashboard's handler schedules _on_event
\* on the UI loop with call_from_thread. Neither touches the store.
Notify(evs) ==
    /\ event_queue' = IF observer THEN event_queue \o Delivered(evs) ELSE event_queue
    /\ missed' = IF snap_taken /\ ~observer /\ pc # "done"
                  THEN missed + Len(Delivered(evs)) ELSE missed
    /\ ui_queue' = IF env_handler THEN ui_queue \o evs ELSE ui_queue
    /\ scr_queue' = scr_queue \o ToScreen(evs)
    /\ UNCHANGED <<dashrest, cmdvars, selvars, scrrest>>
    /\ UNCHANGED store

BackendCreate ==
    \E i \in MatchedIds :
        /\ backend[i] = "NONE"
        /\ backend' = [backend EXCEPT ![i] = "CREATED"]
        /\ Notify(<<LifecycleEvent(i, "CREATED")>>)
        /\ UNCHANGED <<last_poll, now, hist, cmd, pc, observer, first, display, printed, snap_taken,
                       exc, removals, tick_log>>

BackendStart ==
    \E i \in MatchedIds :
        /\ backend[i] = "CREATED"
        /\ backend' = [backend EXCEPT ![i] = "RUNNING"]
        /\ Notify(<<RootPhaseEvent(i, "RUNNING"), LifecycleEvent(i, "RUNNING")>>)
        /\ UNCHANGED <<last_poll, now, hist, cmd, pc, observer, first, display, printed, snap_taken,
                       exc, removals, tick_log>>

BackendEnd ==
    \E i \in MatchedIds :
        /\ backend[i] = "RUNNING"
        /\ backend' = [backend EXCEPT ![i] = "ENDED"]
        /\ Notify(<<RootPhaseEvent(i, "ENDED"), LifecycleEvent(i, "ENDED")>>)
        /\ UNCHANGED <<last_poll, now, hist, cmd, pc, observer, first, display, printed, snap_taken,
                       exc, removals, tick_log>>

\* The backend detaches the ended instance: no event.
BackendDetach ==
    \E i \in MatchedIds :
        /\ backend[i] = "ENDED"
        /\ backend' = [backend EXCEPT ![i] = "DETACHED"]
        /\ UNCHANGED <<store, last_poll, now, hist, cmd, pc, observer, event_queue, first, display,
                       printed, snap_taken, missed, exc, removals, tick_log, dashvars, extvars>>

\* The process of a running instance crashes: no event.
BackendCrash ==
    \E i \in MatchedIds :
        /\ backend[i] = "RUNNING"
        /\ backend' = [backend EXCEPT ![i] = "CRASHED"]
        /\ UNCHANGED <<store, last_poll, now, hist, cmd, pc, observer, event_queue, first, display,
                       printed, snap_taken, missed, exc, removals, tick_log, dashvars, extvars>>

\* A running instance writes a line of output: an InstanceOutputEvent, as
\* often as it likes (the queue of the model holds MaxQueue events).
BackendOutput ==
    \E i \in MatchedIds :
        /\ backend[i] = "RUNNING"
        /\ Len(event_queue) < MaxQueue
        /\ Notify(<<[cls |-> "InstanceOutputEvent", instance |-> i]>>)
        /\ UNCHANGED <<backend, last_poll, now, hist, cmd, pc, observer, first, display, printed,
                       snap_taken, exc, removals, tick_log>>

\* conn.get_active_runs(run_match): the snapshots of the instances the
\* backend still holds; an instance in registration or teardown may be left
\* out of one answer.
BackendActiveRuns ==
    {{Snap(i) : i \in S} : S \in SUBSET {i \in MatchedIds : backend[i] \in {"CREATED", "RUNNING", "ENDED"}}}

(***************************************************************************)
(* LiveView.run                                                            *)
(***************************************************************************)
\* Mutant: the handler is not registered before the first poll.
RunAddObserver_late ==
    /\ cmd = "live" /\ pc = "add_observer"
    /\ pc' = "first_poll"
    /\ UNCHANGED <<store, last_poll, now, hist, cmd, backend, observer, event_queue, first, display,
                   printed, snap_taken, missed, exc, removals, tick_log>>
    /\ UNCHANGED <<dashvars, extvars>>

\* self._conn.notifications.add_observer_all_events(handler)
RunAddObserver ==
    /\ cmd = "live" /\ pc = "add_observer"
    /\ observer' = TRUE
    /\ pc' = "first_poll"
    /\ UNCHANGED <<store, last_poll, now, hist, cmd, backend, event_queue, first, display, printed,
                   snap_taken, missed, exc, removals, tick_log>>
    /\ UNCHANGED <<dashvars, extvars>>

\* _refresh_active_runs when conn.get_active_runs raises: _last_poll has been
\* set and nothing else.
RefreshFails ==
    /\ last_poll' = now
    /\ UNCHANGED store

\* The first poll raises: the exception reaches the finally clause.
RunFirstPollFails ==
    /\ cmd = "live" /\ pc = "first_poll"
    /\ RefreshFails
    /\ snap_taken' = TRUE
    /\ exc' = "TransportError"
    /\ pc' = "finally"
    /\ UNCHANGED <<now, hist, cmd, backend, observer, event_queue, first, display, printed, missed,
                   removals, tick_log>>
    /\ UNCHANGED <<dashvars, extvars>>

\* self._refresh_active_runs() before the loop
RunFirstPoll ==
    /\ cmd = "live" /\ pc = "first_poll"
    /\ \E rs \in BackendActiveRuns : RefreshActiveRuns(rs)
    /\ snap_taken' = TRUE
    /\ pc' = "live"
    /\ UNCHANGED <<now, hist, cmd, backend, observer, event_queue, first, display, printed, missed, exc, removals, tick_log>>
    /\ UNCHANGED <<dashvars, extvars>>

\* with Live(self._build_table(), ...) as live_display
RunOpenLive ==
    /\ cmd = "live" /\ pc = "live"
    /\ display' = BuildTable
    /\ first' = TRUE
    /\ tick_log' = EmptyLog
    /\ pc' = "drain"
    /\ UNCHANGED <<store, last_poll, now, hist, cmd, backend, observer, event_queue, printed,
                   snap_taken, missed, exc, removals>>
    /\ UNCHANGED <<dashvars, extvars>>

\* History of the tick: a root-phase ENDED event that passes the filter was
\* applied at time t.
LogEvent(log, event, t) ==
    IF HasJobRun(event) /\ run_match(event.job_run) /\ IsRootEnded(event)
    THEN [log EXCEPT !.ended = Put(@, event.job_run.instance_id, t)]
    ELSE log

\* Mutant: the drain takes the newest event of the queue.
DrainGet_lifo ==
    /\ cmd = "live" /\ pc = "drain"
    /\ event_queue # <<>>
    /\ ProcessEvent(event_queue[Len(event_queue)])
    /\ event_queue' = SubSeq(event_queue, 1, Len(event_queue) - 1)
    /\ first' = FALSE
    /\ tick_log' = LogEvent(tick_log, event_queue[Len(event_queue)], now)
    /\ UNCHANGED <<last_poll, now, hist, cmd, pc, backend, observer, display, printed, snap_taken,
                   missed, exc, removals>>
    /\ UNCHANGED <<dashvars, extvars>>

\* _drain_events: event = self._event_queue.get(...); self._process_event(event)
DrainGet ==
    /\ cmd = "live" /\ pc = "drain"
    /\ event_queue # <<>>
    /\ ProcessEvent(Head(event_queue))
    /\ event_queue' = Tail(event_queue)
    /\ first' = FALSE
    /\ tick_log' = LogEvent(tick_log, Head(event_queue), now)
    /\ UNCHANGED <<last_poll, now, hist, cmd, pc, backend, observer, display, printed, snap_taken,
                   missed, exc, removals>>
    /\ UNCHANGED <<dashvars, extvars>>

\* Mutant: the poll check is skipped after the drain.
DrainEmpty_skipspoll ==
    /\ cmd = "live" /\ pc = "drain"
    /\ event_queue = <<>>
    /\ IF first THEN now < MaxTime /\ now' = now + 1 ELSE now' = now
    /\ pc' = "prune"
    /\ UNCHANGED <<store, last_poll, hist, cmd, backend, observer, event_queue, first, display, printed,
                   snap_taken, missed, exc, removals, tick_log>>
    /\ UNCHANGED <<dashvars, extvars>>

\* _drain_events: Empty after the 1 second wait for the first event, or at
\* once after the first event.
DrainEmpty ==
    /\ cmd = "live" /\ pc = "drain"
    /\ event_queue = <<>>
    /\ IF first THEN now < MaxTime /\ now' = now + 1 ELSE now' = now
    /\ pc' = "poll_if_due"
    /\ UNCHANGED <<store, last_poll, hist, cmd, backend, observer, event_queue, first, display, printed,
                   snap_taken, missed, exc, removals, tick_log>>
    /\ UNCHANGED <<dashvars, extvars>>

\* _poll_if_due
PollIfDue ==
    /\ cmd = "live" /\ pc = "poll_if_due"
    /\ IF now - last_poll >= POLL_INTERVAL_SECONDS
       THEN \E rs \in BackendActiveRuns :
                /\ RefreshActiveRuns(rs)
                /\ tick_log' = [tick_log EXCEPT !.due = TRUE, !.polled = PolledIds(rs)]
       ELSE UNCHANGED <<store, last_poll, tick_log>>
    /\ pc' = "prune"
    /\ UNCHANGED <<now, hist, cmd, backend, observer, event_queue, first, display, printed, snap_taken,
                   missed, exc, removals>>
    /\ UNCHANGED <<dashvars, extvars>>

\* _poll_if_due when conn.get_active_runs raises: _last_poll is already set,
\* the exception leaves _refresh_active_runs, _poll_if_due and the while loop.
PollIfDueFails ==
    /\ cmd = "live" /\ pc = "poll_if_due"
    /\ now - last_poll >= POLL_INTERVAL_SECONDS
    /\ RefreshFails
    /\ exc' = "TransportError"
    /\ pc' = "except"
    /\ UNCHANGED <<now, hist, cmd, backend, observer, event_queue, first, display, printed, snap_taken,
                   missed, removals, tick_log>>
    /\ UNCHANGED <<dashvars, extvars>>

\* self._prune_ended()
RunPrune ==
    /\ cmd = "live" /\ pc = "prune"
    /\ PruneEnded
    /\ pc' = "update"
    /\ UNCHANGED <<last_poll, now, hist, cmd, backend, observer, event_queue, first, display, printed,
                   snap_taken, missed, exc, removals, tick_log>>
    /\ UNCHANGED <<dashvars, extvars>>

\* live_display.update(self._build_table()), then the next tick
RunUpdate ==
    /\ cmd = "live" /\ pc = "update"
    /\ display' = BuildTable
    /\ first' = TRUE
    /\ tick_log' = EmptyLog
    /\ pc' = "drain"
    /\ UNCHANGED <<store, last_poll, now, hist, cmd, backend, observer, event_queue, printed,
                   snap_taken, missed, exc, removals>>
    /\ UNCHANGED <<dashvars, extvars>>

\* The statements of the while loop, inside try ... except KeyboardInterrupt.
LoopPcs == {"drain", "poll_if_due", "prune", "update"}

\* KeyboardInterrupt: raised inside the loop it reaches the except clause,
\* raised during the first poll or while the Live display is opened it
\* reaches the finally clause.
RunInterrupt ==
    /\ cmd = "live" /\ pc \in {"first_poll", "live"} \cup LoopPcs
    /\ exc' = "KeyboardInterrupt"
    /\ pc' = IF pc \in LoopPcs THEN "except" ELSE "finally"
    /\ UNCHANGED <<store, last_poll, now, hist, cmd, backend, observer, event_queue, first, display,
                   printed, snap_taken, missed, removals, tick_log>>
    /\ UNCHANGED <<dashvars, extvars>>

\* except KeyboardInterrupt: pass; any other exception passes through; the
\* Live display is closed.
RunExcept ==
    /\ cmd = "live" /\ pc = "except"
    /\ exc' = IF exc = "KeyboardInterrupt" THEN None ELSE exc
    /\ pc' = "finally"
    /\ UNCHANGED <<store, last_poll, now, hist, cmd, backend, observer, event_queue, first, display,
                   printed, snap_taken, missed, removals, tick_log>>
    /\ UNCHANGED <<dashvars, extvars>>

\* Mutant: run returns without removing the observer.
RunFinally_leak ==
    /\ cmd = "live" /\ pc = "finally"
    /\ pc' = "done"
    /\ UNCHANGED <<store, last_poll, now, hist, cmd, backend, observer, event_queue, first, display,
                   printed, snap_taken, missed, exc, removals, tick_log>>
    /\ UNCHANGED <<dashvars, extvars>>

\* finally: self._conn.notifications.remove_observer_all_events(handler)
RunFinally ==
    /\ cmd = "live" /\ pc = "finally"
    /\ observer' = FALSE
    /\ removals' = removals + 1
    /\ pc' = "done"
    /\ UNCHANGED <<store, last_poll, now, hist, cmd, backend, event_queue, first, display, printed,
                   snap_taken, missed, exc, tick_log>>
    /\ UNCHANGED <<dashvars, extvars>>

\* Time passes while the command runs.
RunTick ==
    /\ pc \notin {"idle", "done"}
    /\ now < MaxTime
    /\ now' = now + 1
    /\ UNCHANGED <<store, last_poll, hist, runvars, dashvars, extvars>>

(***************************************************************************)
(* listen                                                                  *)
(***************************************************************************)
\* conn.notifications.add_observer_lifecycle(lambda e: event_queue.put(e))
ListenAddObserver ==
    /\ cmd = "listen" /\ pc = "add_observer"
    /\ observer' = TRUE
    /\ pc' = "first_poll"
    /\ UNCHANGED <<store, last_poll, now, hist, cmd, backend, event_queue, first, display, printed,
                   snap_taken, missed, exc, removals, tick_log>>
    /\ UNCHANGED <<dashvars, extvars>>

\* runs = conn.get_active_runs(run_match); the table of the runs is printed
ListenGetActiveRuns ==
    /\ cmd = "listen" /\ pc = "first_poll"
    /\ \E rs \in BackendActiveRuns : display' = SeqOfIds(PolledIds(rs))
    /\ snap_taken' = TRUE
    /\ pc' = "loop"
    /\ UNCHANGED <<store, last_poll, now, hist, cmd, backend, observer, event_queue, first, printed, missed, exc, removals, tick_log>>
    /\ UNCHANGED <<dashvars, extvars>>

\* event = event_queue.get(timeout=0.5); printed when run_match accepts it
ListenGet ==
    /\ cmd = "listen" /\ pc = "loop"
    /\ event_queue # <<>>
    /\ event_queue' = Tail(event_queue)
    /\ printed' = IF run_match(Head(event_queue).job_run)
                   THEN Append(printed, Head(event_queue)) ELSE printed
    /\ UNCHANGED <<store, last_poll, now, hist, cmd, pc, backend, observer, first, display, snap_taken, missed, exc, removals, tick_log>>
    /\ UNCHANGED <<dashvars, extvars>>

\* Ctrl+C leaves the loop and the connector is closed.
ListenInterrupt ==
    /\ cmd = "listen" /\ pc \in {"first_poll", "loop"}
    /\ pc' = "done"
    /\ observer' = FALSE
    /\ exc' = "KeyboardInterrupt"
    /\ UNCHANGED <<store, last_poll, now, hist, cmd, backend, event_queue, first, display, printed,
                   snap_taken, missed, removals, tick_log>>
    /\ UNCHANGED <<dashvars, extvars>>

InitRun ==
    /\ InitStore /\ InitHist
    /\ cmd \in {"live", "listen"}
    /\ pc = "add_observer"
    /\ backend \in [MatchedIds -> {"NONE", "RUNNING"}]
    /\ observer = FALSE
    /\ event_queue = <<>>
    /\ first = TRUE
    /\ display = <<>>
    /\ printed = <<>>
    /\ snap_taken = FALSE
    /\ missed = 0
    /\ exc = None
    /\ removals = 0
    /\ tick_log = EmptyLog
    /\ IdleDash
    /\ IdleExt

NextRun ==
    \/ BackendCreate \/ BackendStart \/ BackendEnd \/ BackendDetach \/ BackendCrash
    \/ RunAddObserver \/ RunFirstPoll \/ RunFirstPollFails \/ RunOpenLive
    \/ DrainGet \/ DrainEmpty \/ PollIfDue \/ PollIfDueFails \/ RunPrune \/ RunUpdate
    \/ RunInterrupt \/ RunExcept \/ RunFinally \/ RunTick
    \/ ListenAddObserver \/ ListenGetActiveRuns \/ ListenGet \/ ListenInterrupt

SpecRun == InitRun /\ [][NextRun]_vars

(***************************************************************************)
(* The tick loop of LiveView.run, undisturbed, while running instances     *)
(* write output. The main thread is scheduled fairly.                      *)
(***************************************************************************)
InitDrain == InitRun /\ cmd = "live"

Consumer ==
    \/ RunAddObserver \/ RunFirstPoll \/ RunOpenLive
    \/ DrainGet \/ DrainEmpty \/ PollIfDue \/ RunPrune \/ RunUpdate

NextDrain == BackendOutput \/ Consumer

SpecDrain == InitDrain /\ [][NextDrain]_vars /\ WF_vars(Consumer)

(***************************************************************************)
(* dash and DashboardScreen                                                *)
(***************************************************************************)
HeldInstances == {i \in MatchedIds : backend[i] \in {"CREATED", "RUNNING", "ENDED"}}

\* inst.snap(): the current snapshot of the instance; the final one once it
\* has ended.
InstSnap(i) ==
    [instance_id |-> i, stage |-> IF backend[i] \in {"CREATED", "RUNNING"} THEN backend[i] ELSE "ENDED"]

\* job_run.lifecycle.is_ended
is_ended(job_run) == job_run.stage = "ENDED"

\* instances = list(conn.get_instances(run_match))
DashGetInstances ==
    /\ dpc = "get_instances"
    /\ dash_instances' = HeldInstances
    /\ dpc' = "read_history"
    /\ UNCHANGED <<dash_history, instances, live_runs, history_runs, env_handler, ui_queue,
                   selected_key, active_table, history_table>>
    /\ UNCHANGED <<store, last_poll, now, hist, runvars, extvars>>

\* history_runs = conn.read_history_runs(run_match, asc=False, limit=history)
DashReadHistory ==
    /\ dpc = "read_history"
    /\ dash_history' = {RunAt(i, "ENDED") : i \in {j \in MatchedIds : backend[j] \in {"ENDED", "DETACHED"}}}
    /\ dpc' = "init"
    /\ UNCHANGED <<dash_instances, instances, live_runs, history_runs, env_handler, ui_queue,
                   selected_key, active_table, history_table>>
    /\ UNCHANGED <<store, last_poll, now, hist, runvars, extvars>>

\* DashboardScreen.__init__
DashInit ==
    /\ dpc = "init"
    /\ instances' = dash_instances
    /\ live_runs' = [i \in dash_instances |-> InstSnap(i)]
    /\ history_runs' = [i \in {r.instance_id : r \in dash_history} \ dash_instances |->
                            CHOOSE r \in dash_history : r.instance_id = i]
    /\ dpc' = "mount"
    /\ UNCHANGED <<dash_instances, dash_history, env_handler, ui_queue, selected_key,
                   active_table, history_table>>
    /\ UNCHANGED <<store, last_poll, now, hist, runvars, extvars>>

\* DashboardScreen.on_mount: _populate_tables, then add_observer_all_events
DashOnMount ==
    /\ dpc = "mount"
    /\ active_table' = live_runs
    /\ history_table' = history_runs
    /\ env_handler' = TRUE
    /\ env_adds' = env_adds + 1
    /\ dpc' = "mounted"
    /\ UNCHANGED <<dash_instances, dash_history, instances, live_runs, history_runs, ui_queue, selected_key>>
    /\ UNCHANGED <<selector, sel_pc, runs, sel_table, env_removals>>
    /\ UNCHANGED others_dash

\* DashboardScreen._on_event, run on the UI loop
DashOnEvent ==
    /\ dpc \in {"mounted", "detail"}
    /\ ui_queue # <<>>
    /\ ui_queue' = Tail(ui_queue)
    /\ LET event == Head(ui_queue)
           job_run == event.job_run
           key == job_run.instance_id
       IN  IF ~HasJobRun(event) \/ ~run_match(job_run) THEN
               UNCHANGED <<instances, live_runs, history_runs, active_table, history_table>>
           ELSE IF IsRootEnded(event) THEN
               /\ live_runs' = Pop(live_runs, key)
               /\ instances' = instances \ {key}
               /\ history_runs' = Put(history_runs, key, job_run)
               /\ active_table' = live_runs'
               /\ history_table' = history_runs'
           ELSE IF is_ended(job_run) THEN
               UNCHANGED <<instances, live_runs, history_runs, active_table, history_table>>
           ELSE IF key \in Keys(live_runs) THEN
               /\ live_runs' = Put(live_runs, key, job_run)
               /\ active_table' = Put(active_table, key, job_run)
               /\ UNCHANGED <<instances, history_runs, history_table>>
           ELSE IF key \in HeldInstances THEN
               /\ instances' = instances \cup {key}
               /\ live_runs' = Put(live_runs, key, job_run)
               /\ active_table' = Put(active_table, key, job_run)
               /\ UNCHANGED <<history_runs, history_table>>
           ELSE
               UNCHANGED <<instances, live_runs, history_runs, active_table, history_table>>
    /\ UNCHANGED <<dpc, dash_instances, dash_history, env_handler, selected_key>>
    /\ UNCHANGED <<store, last_poll, now, hist, runvars, extvars>>

\* DashboardScreen.on_data_table_row_selected: pushes the detail screen
DashRowSelected ==
    /\ dpc = "mounted"
    /\ \E key \in Keys(active_table) \cup Keys(history_table) :
        /\ selected_key' = key
        /\ dpc' = IF key \in instances \/ key \in Keys(history_runs) THEN "detail" ELSE "mounted"
    /\ UNCHANGED <<dash_instances, dash_history, instances, live_runs, history_runs, env_handler,
                   ui_queue, active_table, history_table>>
    /\ UNCHANGED <<store, last_poll, now, hist, runvars, extvars>>

\* DashboardScreen._on_detail_dismissed
DashDetailDismissed ==
    /\ dpc = "detail"
    /\ LET ended == {key \in instances : is_ended(InstSnap(key))}
       IN  /\ instances' = instances \ ended
           /\ live_runs' = [key \in (Keys(live_runs) \ ended) \cup (instances \ ended) |->
                                IF key \in instances THEN InstSnap(key) ELSE live_runs[key]]
           /\ history_runs' = [key \in Keys(history_runs) \cup ended |->
                                IF key \in ended THEN InstSnap(key) ELSE history_runs[key]]
    /\ active_table' = live_runs'
    /\ history_table' = history_runs'
    /\ dpc' = "mounted"
    /\ UNCHANGED <<dash_instances, dash_history, env_handler, ui_queue, selected_key>>
    /\ UNCHANGED <<store, last_poll, now, hist, runvars, extvars>>

\* action_quit_app, then DashboardScreen.on_unmount
DashOnUnmount ==
    /\ dpc = "mounted"
    /\ env_handler' = FALSE
    /\ env_removals' = IF env_handler THEN env_removals + 1 ELSE env_removals
    /\ dpc' = "done"
    /\ UNCHANGED <<dash_instances, dash_history, instances, live_runs, history_runs, ui_queue,
                   selected_key, active_table, history_table>>
    /\ UNCHANGED <<selector, sel_pc, runs, sel_table, env_adds>>
    /\ UNCHANGED others_dash

InitDash ==
    /\ InitStore /\ InitHist
    /\ cmd = None
    /\ pc = "idle"
    /\ backend \in [MatchedIds -> {"NONE", "RUNNING", "DETACHED"}]
    /\ observer = FALSE
    /\ event_queue = <<>>
    /\ first = TRUE
    /\ display = <<>>
    /\ printed = <<>>
    /\ snap_taken = FALSE
    /\ missed = 0
    /\ exc = None
    /\ removals = 0
    /\ tick_log = EmptyLog
    /\ dpc = "get_instances"
    /\ dash_instances = {}
    /\ dash_history = {}
    /\ instances = {}
    /\ live_runs = EmptyDict
    /\ history_runs = EmptyDict
    /\ env_handler = FALSE
    /\ ui_queue = <<>>
    /\ selected_key = None
    /\ active_table = EmptyDict
    /\ history_table = EmptyDict
    /\ IdleExt

NextDash ==
    \/ BackendCreate \/ BackendStart \/ BackendEnd \/ BackendDetach
    \/ DashGetInstances \/ DashReadHistory \/ DashInit \/ DashOnMount
    \/ DashOnEvent \/ DashRowSelected \/ DashDetailDismissed \/ DashOnUnmount

SpecDash == InitDash /\ [][NextDash]_vars

(***************************************************************************)
(* Any of the commands runs: live or listen, or dash.                      *)
(***************************************************************************)
InitAny == InitRun \/ InitDash

NextAny == NextRun \/ NextDash

SpecAny == InitAny /\ [][NextAny]_vars

(***************************************************************************)
(* stop (cmd/stop.py): for every pattern the matching instances are        *)
(* fetched, confirmed unless --force, and stopped one by one.              *)
(***************************************************************************)
StopIds == {"to_stop", "to_stop_2", "to_keep"}
StopOrder == <<"to_stop", "to_stop_2", "to_keep">>
Patterns == {"to_stop", "to_stop*"}
MaxPatterns == 2

\* JobRunCriteria.parse(pattern, MatchingStrategy.FN_MATCH)
FnMatch(pattern, i) ==
    IF pattern = "to_stop" THEN i = "to_stop" ELSE i \in {"to_stop", "to_stop_2"}

\* conn.get_instances(criteria): the matching instances the environment
\* still holds.
GetInstances(pattern) ==
    SelectSeq(StopOrder, LAMBDA i : inst_state[i] \in {"running", "stopped"} /\ FnMatch(pattern, i))

SeqToSet(q) == {q[k] : k \in 1..Len(q)}

\* for pattern in instance_patterns: instances = conn.get_instances(...);
\* no instances: next pattern; --force: go on to the stop loop; otherwise
\* the table is printed and the user is asked.
StopGetInstances ==
    /\ stop_pc = "next_pattern"
    /\ patterns # <<>>
    /\ LET pattern == Head(patterns)
           insts == GetInstances(pattern)
       IN  /\ patterns' = Tail(patterns)
           /\ IF insts = <<>> THEN
                  /\ fetched' = Append(fetched, [pattern |-> pattern, instances |-> {}, go |-> FALSE])
                  /\ UNCHANGED <<stop_pc, stop_instances>>
              ELSE IF force THEN
                  /\ fetched' = Append(fetched, [pattern |-> pattern, instances |-> SeqToSet(insts), go |-> TRUE])
                  /\ stop_instances' = insts
                  /\ stop_pc' = "stopping"
              ELSE
                  /\ fetched' = Append(fetched, [pattern |-> pattern, instances |-> SeqToSet(insts), go |-> FALSE])
                  /\ stop_instances' = insts
                  /\ stop_pc' = "confirm"
    /\ UNCHANGED <<force, inst_state, total_stopped, stop_log>>
    /\ UNCHANGED others_stop

\* if not cliutil.user_confirmation(...): print "Skipped"; continue
StopConfirm ==
    /\ stop_pc = "confirm"
    /\ \E answer \in BOOLEAN :
        IF answer THEN
            /\ fetched' = [fetched EXCEPT ![Len(fetched)].go = TRUE]
            /\ stop_pc' = "stopping"
            /\ UNCHANGED stop_instances
        ELSE
            /\ stop_instances' = <<>>
            /\ stop_pc' = "next_pattern"
            /\ UNCHANGED fetched
    /\ UNCHANGED <<force, patterns, inst_state, total_stopped, stop_log>>
    /\ UNCHANGED others_stop

\* Mutant: TargetNotFoundError ends the loop over the instances.
StopInstance_abort ==
    /\ stop_pc = "stopping"
    /\ LET instance == Head(stop_instances)
           found == inst_state[instance] # "gone"
           rest == IF found THEN Tail(stop_instances) ELSE <<>>
       IN  /\ stop_log' = Append(stop_log, [k |-> Len(fetched), instance |-> instance, ok |-> found])
           /\ total_stopped' = IF found THEN total_stopped + 1 ELSE total_stopped
           /\ inst_state' = IF found THEN [inst_state EXCEPT ![instance] = "stopped"] ELSE inst_state
           /\ stop_instances' = rest
           /\ stop_pc' = IF rest = <<>> THEN "next_pattern" ELSE "stopping"
    /\ UNCHANGED <<force, patterns, fetched>>
    /\ UNCHANGED others_stop

\* for instance in instances: try: instance.stop(); total_stopped += 1
\* except TargetNotFoundError: (warning)
StopInstance ==
    /\ stop_pc = "stopping"
    /\ LET instance == Head(stop_instances)
           found == inst_state[instance] # "gone"
           rest == Tail(stop_instances)
       IN  /\ stop_log' = Append(stop_log, [k |-> Len(fetched), instance |-> instance, ok |-> found])
           /\ total_stopped' = IF found THEN total_stopped + 1 ELSE total_stopped
           /\ inst_state' = IF found THEN [inst_state EXCEPT ![instance] = "stopped"] ELSE inst_state
           /\ stop_instances' = rest
           /\ stop_pc' = IF rest = <<>> THEN "next_pattern" ELSE "stopping"
    /\ UNCHANGED <<force, patterns, fetched>>
    /\ UNCHANGED others_stop

\* console.print("Total stopped: ...") after the last pattern
StopReport ==
    /\ stop_pc = "next_pattern"
    /\ patterns = <<>>
    /\ stop_pc' = "done"
    /\ UNCHANGED <<force, patterns, stop_instances, inst_state, total_stopped, fetched, stop_log>>
    /\ UNCHANGED others_stop

\* The environment: an instance terminates and is no longer available.
StopInstanceExits ==
    /\ stop_pc \notin {"idle", "done"}
    /\ \E i \in StopIds :
        /\ inst_state[i] \in {"running", "stopped"}
        /\ inst_state' = [inst_state EXCEPT ![i] = "gone"]
    /\ UNCHANGED <<stop_pc, force, patterns, stop_instances, total_stopped, fetched, stop_log>>
    /\ UNCHANGED others_stop

PatternLists == UNION {[1..n -> Patterns] : n \in 1..MaxPatterns}

InitStop ==
    /\ InitStore /\ InitHist /\ IdleRun /\ IdleDash /\ IdleApprove /\ IdleTail /\ IdleConv /\ IdleSel /\ IdleScr
    /\ stop_pc = "next_pattern"
    /\ force \in BOOLEAN
    /\ patterns \in PatternLists
    /\ stop_instances = <<>>
    /\ inst_state \in [StopIds -> {"running", "gone"}]
    /\ total_stopped = 0
    /\ fetched = <<>>
    /\ stop_log = <<>>

NextStop ==
    StopGetInstances \/ StopConfirm \/ StopInstance \/ StopReport \/ StopInstanceExits

SpecStop == InitStop /\ [][NextStop]_vars

(***************************************************************************)
(* approve (cmd/approve.py): resolve_env_configs                           *)
(***************************************************************************)
EnvIds == {"local", "prod", "test"}
DEFAULT_LOCAL_ENVIRONMENT == "local"

\* An outcome: the exception raised (None when the call returned) and the
\* returned dict env id -> config; a config is the one loaded from the
\* configuration file or the built-in default.
Raised(e) == [raised |-> e, configs |-> EmptyDict]
Returned(d) == [raised |-> None, configs |-> d]

\* env.get_env_configs(*ids): the configs of the given ids, of all the
\* configured ids when none is given; raises ConfigFileNotFoundError
\* without a configuration file and EnvironmentNotFoundError for an id
\* the file does not define.
get_env_configs(ids) ==
    IF ~config_file THEN Raised("ConfigFileNotFoundError")
    ELSE IF ids = {} THEN Returned([i \in configured |-> "configured"])
    ELSE IF ~(ids \subseteq configured) THEN Raised("EnvironmentNotFoundError")
    ELSE Returned([i \in ids |-> "configured"])

\* env.get_default_config(DEFAULT_LOCAL_ENVIRONMENT)
get_default_config(i) == "default"

resolve_env_configs(ids) ==
    LET mixed_explicit_local == DEFAULT_LOCAL_ENVIRONMENT \in ids /\ Cardinality(ids) > 1
        env_ids_set == IF mixed_explicit_local THEN ids \ {DEFAULT_LOCAL_ENVIRONMENT} ELSE ids
        loaded == get_env_configs(env_ids_set)
    IN  IF loaded.raised # None THEN
            IF env_ids_set # {} /\ env_ids_set # {DEFAULT_LOCAL_ENVIRONMENT}
            THEN loaded
            ELSE Returned(Put(EmptyDict, DEFAULT_LOCAL_ENVIRONMENT,
                              get_default_config(DEFAULT_LOCAL_ENVIRONMENT)))
        ELSE IF /\ (env_ids_set = {} \/ mixed_explicit_local)
                /\ DEFAULT_LOCAL_ENVIRONMENT \notin Keys(loaded.configs)
        THEN Returned(Put(loaded.configs, DEFAULT_LOCAL_ENVIRONMENT,
                          get_default_config(DEFAULT_LOCAL_ENVIRONMENT)))
        ELSE loaded

\* env_configs = resolve_env_configs(*env_ids)
ApproveResolve ==
    /\ ap_pc = "resolve"
    /\ env_configs' = resolve_env_configs(env_ids)
    /\ ap_pc' = "resolved"
    /\ UNCHANGED <<env_ids, config_file, configured>>
    /\ UNCHANGED others_approve

InitApprove ==
    /\ InitStore /\ InitHist /\ IdleRun /\ IdleDash /\ IdleStop /\ IdleTail /\ IdleConv /\ IdleSel /\ IdleScr
    /\ ap_pc = "resolve"
    /\ env_ids \in SUBSET EnvIds
    /\ config_file \in BOOLEAN
    /\ configured \in SUBSET EnvIds
    /\ ~config_file => configured = {}
    /\ env_configs = None

NextApprove == ApproveResolve

SpecApprove == InitApprove /\ [][NextApprove]_vars

(***************************************************************************)
(* The selector apps (tui/selector.py).  _CombinedSelectorApp has the      *)
(* fields of DashboardScreen and keeps them in the same variables;         *)
(* _LiveSelectorApp keeps _instances in instances, _runs in runs and the   *)
(* rows of its DataTable in sel_table.                                     *)
(***************************************************************************)
\* The caller's conn.get_instances: resolve._resolve_no_patterns keeps the
\* instances whose snapshot has not ended for select_instance.
SelGetInstances ==
    /\ sel_pc = "get_instances"
    /\ dash_instances' = IF selector = "live"
                          THEN {i \in HeldInstances : ~is_ended(InstSnap(i))}
                          ELSE HeldInstances
    /\ sel_pc' = IF selector = "live" THEN "init" ELSE "read_history"
    /\ UNCHANGED <<dpc, dash_history, instances, live_runs, history_runs, env_handler, ui_queue,
                   selected_key, active_table, history_table>>
    /\ UNCHANGED <<selector, runs, sel_table, env_adds, env_removals>>
    /\ UNCHANGED others_dash

\* The history runs handed to select_instance_or_run.
SelReadHistory ==
    /\ sel_pc = "read_history"
    /\ dash_history' = {RunAt(i, "ENDED") : i \in {j \in MatchedIds : backend[j] \in {"ENDED", "DETACHED"}}}
    /\ sel_pc' = "init"
    /\ UNCHANGED <<dpc, dash_instances, instances, live_runs, history_runs, env_handler, ui_queue,
                   selected_key, active_table, history_table>>
    /\ UNCHANGED <<selector, runs, sel_table, env_adds, env_removals>>
    /\ UNCHANGED others_dash

\* _LiveSelectorApp.__init__
LiveSelInit ==
    /\ selector = "live" /\ sel_pc = "init"
    /\ instances' = dash_instances
    /\ runs' = [i \in dash_instances |-> InstSnap(i)]
    /\ sel_pc' = "mount"
    /\ UNCHANGED <<dpc, dash_instances, dash_history, live_runs, history_runs, env_handler, ui_queue,
                   selected_key, active_table, history_table>>
    /\ UNCHANGED <<selector, sel_table, env_adds, env_removals>>
    /\ UNCHANGED others_dash

\* _LiveSelectorApp.on_mount: a row per run, then add_observer_all_events
LiveSelOnMount ==
    /\ selector = "live" /\ sel_pc = "mount"
    /\ sel_table' = runs
    /\ env_handler' = TRUE
    /\ env_adds' = env_adds + 1
    /\ sel_pc' = "mounted"
    /\ UNCHANGED <<dpc, dash_instances, dash_history, instances, live_runs, history_runs, ui_queue,
                   selected_key, active_table, history_table>>
    /\ UNCHANGED <<selector, runs, env_removals>>
    /\ UNCHANGED others_dash

\* Mutant: a new instance gets its row and its snapshot, but the live
\* proxy is not kept.
LiveSelOnEvent_noproxy ==
    /\ selector = "live" /\ sel_pc = "mounted"
    /\ ui_queue # <<>>
    /\ ui_queue' = Tail(ui_queue)
    /\ LET event == Head(ui_queue)
           job_run == event.job_run
           key == job_run.instance_id
       IN  IF ~HasJobRun(event) \/ ~run_match(job_run) THEN
               UNCHANGED <<instances, runs, sel_table>>
           ELSE IF IsRootEnded(event) THEN
               /\ runs' = Pop(runs, key)
               /\ instances' = instances \ {key}
               /\ sel_table' = Pop(sel_table, key)
           ELSE IF is_ended(job_run) THEN
               UNCHANGED <<instances, runs, sel_table>>
           ELSE IF key \in Keys(runs) THEN
               /\ runs' = Put(runs, key, job_run)
               /\ sel_table' = Put(sel_table, key, job_run)
               /\ UNCHANGED instances
           ELSE IF key \in HeldInstances THEN
               /\ runs' = Put(runs, key, job_run)
               /\ sel_table' = Put(sel_table, key, job_run)
               /\ UNCHANGED instances
           ELSE
               UNCHANGED <<instances, runs, sel_table>>
    /\ UNCHANGED <<dpc, dash_instances, dash_history, live_runs, history_runs, env_handler,
                   selected_key, active_table, history_table>>
    /\ UNCHANGED <<selector, sel_pc, env_adds, env_removals>>
    /\ UNCHANGED others_dash

\* _LiveSelectorApp._on_event, run on the UI loop
LiveSelOnEvent ==
    /\ selector = "live" /\ sel_pc = "mounted"
    /\ ui_queue # <<>>
    /\ ui_queue' = Tail(ui_queue)
    /\ LET event == Head(ui_queue)
           job_run == event.job_run
           key == job_run.instance_id
       IN  IF ~HasJobRun(event) \/ ~run_match(job_run) THEN
               UNCHANGED <<instances, runs, sel_table>>
           ELSE IF IsRootEnded(event) THEN
               /\ runs' = Pop(runs, key)
               /\ instances' = instances \ {key}
               /\ sel_table' = Pop(sel_table, key)
           ELSE IF is_ended(job_run) THEN
               UNCHANGED <<instances, runs, sel_table>>
           ELSE IF key \in Keys(runs) THEN
               /\ runs' = Put(runs, key, job_run)
               /\ sel_table' = Put(sel_table, key, job_run)
               /\ UNCHANGED instances
           ELSE IF key \in HeldInstances THEN
               /\ instances' = instances \cup {key}
               /\ runs' = Put(runs, key, job_run)
               /\ sel_table' = Put(sel_table, key, job_run)
           ELSE
               UNCHANGED <<instances, runs, sel_table>>
    /\ UNCHANGED <<dpc, dash_instances, dash_history, live_runs, history_runs, env_handler,
                   selected_key, active_table, history_table>>
    /\ UNCHANGED <<selector, sel_pc, env_adds, env_removals>>
    /\ UNCHANGED others_dash

\* _LiveSelectorApp.on_data_table_row_selected: self.exit(self._instances.get(key));
\* action_cancel: self.exit(None)
LiveSelExit ==
    /\ selector = "live" /\ sel_pc = "mounted"
    /\ \E key \in Keys(sel_table) \cup {None} : selected_key' = key
    /\ sel_pc' = "exit"
    /\ UNCHANGED <<dpc, dash_instances, dash_history, instances, live_runs, history_runs, env_handler,
                   ui_queue, active_table, history_table>>
    /\ UNCHANGED <<selector, runs, sel_table, env_adds, env_removals>>
    /\ UNCHANGED others_dash

\* _CombinedSelectorApp.__init__
CombinedInit ==
    /\ selector = "combined" /\ sel_pc = "init"
    /\ instances' = dash_instances
    /\ live_runs' = [i \in dash_instances |-> InstSnap(i)]
    /\ history_runs' = [i \in {r.instance_id : r \in dash_history} \ dash_instances |->
                            CHOOSE r \in dash_history : r.instance_id = i]
    /\ sel_pc' = "mount"
    /\ UNCHANGED <<dpc, dash_instances, dash_history, env_handler, ui_queue, selected_key,
                   active_table, history_table>>
    /\ UNCHANGED <<selector, runs, sel_table, env_adds, env_removals>>
    /\ UNCHANGED others_dash

\* _CombinedSelectorApp.on_mount: _populate_tables, then add_observer_all_events
CombinedOnMount ==
    /\ selector = "combined" /\ sel_pc = "mount"
    /\ active_table' = live_runs
    /\ history_table' = history_runs
    /\ env_handler' = TRUE
    /\ env_adds' = env_adds + 1
    /\ sel_pc' = "mounted"
    /\ UNCHANGED <<dpc, dash_instances, dash_history, instances, live_runs, history_runs, ui_queue,
                   selected_key>>
    /\ UNCHANGED <<selector, runs, sel_table, env_removals>>
    /\ UNCHANGED others_dash

\* _CombinedSelectorApp._on_event, run on the UI loop
CombinedOnEvent ==
    /\ selector = "combined" /\ sel_pc = "mounted"
    /\ ui_queue # <<>>
    /\ ui_queue' = Tail(ui_queue)
    /\ LET event == Head(ui_queue)
           job_run == event.job_run
           key == job_run.instance_id
       IN  IF ~HasJobRun(event) \/ ~run_match(job_run) THEN
               UNCHANGED <<instances, live_runs, history_runs, active_table, history_table>>
           ELSE IF IsRootEnded(event) THEN
               /\ live_runs' = Pop(live_runs, key)
               /\ instances' = instances \ {key}
               /\ history_runs' = Put(history_runs, key, job_run)
               /\ active_table' = live_runs'
               /\ history_table' = history_runs'
           ELSE IF is_ended(job_run) THEN
               UNCHANGED <<instances, live_runs, history_runs, active_table, history_table>>
           ELSE IF key \in Keys(live_runs) THEN
               /\ live_runs' = Put(live_runs, key, job_run)
               /\ active_table' = Put(active_table, key, job_run)
               /\ UNCHANGED <<instances, history_runs, history_table>>
           ELSE IF key \in HeldInstances THEN
               /\ instances' = instances \cup {key}
               /\ live_runs' = Put(live_runs, key, job_run)
               /\ active_table' = Put(active_table, key, job_run)
               /\ UNCHANGED <<history_runs, history_table>>
           ELSE
               UNCHANGED <<instances, live_runs, history_runs, active_table, history_table>>
    /\ UNCHANGED <<dpc, dash_instances, dash_history, env_handler, selected_key>>
    /\ UNCHANGED <<selector, sel_pc, runs, sel_table, env_adds, env_removals>>
    /\ UNCHANGED others_dash

\* _CombinedSelectorApp.on_data_table_row_selected: self.exit(...) when the
\* key is in _instances or _history_runs; action_cancel: self.exit(None)
CombinedExit ==
    /\ selector = "combined" /\ sel_pc = "mounted"
    /\ \E key \in Keys(active_table) \cup Keys(history_table) \cup {None} :
        /\ selected_key' = key
        /\ sel_pc' = IF key = None \/ key \in instances \/ key \in Keys(history_runs)
                     THEN "exit" ELSE "mounted"
    /\ UNCHANGED <<dpc, dash_instances, dash_history, instances, live_runs, history_runs, env_handler,
                   ui_queue, active_table, history_table>>
    /\ UNCHANGED <<selector, runs, sel_table, env_adds, env_removals>>
    /\ UNCHANGED others_dash

\* on_unmount of _LiveSelectorApp and of _CombinedSelectorApp:
\* if self._env_handler is not None: remove_observer_all_events; = None
SelOnUnmount ==
    /\ sel_pc = "exit"
    /\ env_handler' = FALSE
    /\ env_removals' = IF env_handler THEN env_removals + 1 ELSE env_removals
    /\ sel_pc' = "done"
    /\ UNCHANGED <<dpc, dash_instances, dash_history, instances, live_runs, history_runs, ui_queue,
                   selected_key, active_table, history_table>>
    /\ UNCHANGED <<selector, runs, sel_table, env_adds>>
    /\ UNCHANGED others_dash

NextSel ==
    \/ SelGetInstances \/ SelReadHistory
    \/ LiveSelInit \/ LiveSelOnMount \/ LiveSelOnEvent \/ LiveSelExit
    \/ CombinedInit \/ CombinedOnMount \/ CombinedOnEvent \/ CombinedExit
    \/ SelOnUnmount

(***************************************************************************)
(* instance and InstanceScreen (cmd/instance.py, tui/instance_screen.py)   *)
(***************************************************************************)
\* instances = list(conn.get_instances(run_match)): one instance is shown
\* live; with none the run is read from the history and shown as
\* historical; without either the command exits.
ScreenGetInstances ==
    /\ scr_pc = "get_instances"
    /\ IF HeldInstances # {} THEN
           /\ \E i \in HeldInstances : scr_instance' = i
           /\ scr_live' = TRUE
           /\ scr_job_run' = NoRun
           /\ scr_pc' = "init"
       ELSE IF \E i \in MatchedIds : backend[i] = "DETACHED" THEN
           /\ \E i \in {j \in MatchedIds : backend[j] = "DETACHED"} : scr_job_run' = RunAt(i, "ENDED")
           /\ scr_live' = FALSE
           /\ scr_instance' = None
           /\ scr_pc' = "init"
       ELSE
           /\ scr_pc' = "done"
           /\ UNCHANGED <<scr_live, scr_instance, scr_job_run>>
    /\ UNCHANGED <<phase_handler, lifecycle_handler, scr_adds, scr_removals, scr_queue>>
    /\ UNCHANGED others_screen

\* InstanceScreen.__init__: a live screen takes instance.snap()
ScreenInit ==
    /\ scr_pc = "init"
    /\ scr_job_run' = IF scr_live THEN InstSnap(scr_instance) ELSE scr_job_run
    /\ scr_pc' = "mount"
    /\ UNCHANGED <<scr_live, scr_instance, phase_handler, lifecycle_handler, scr_adds, scr_removals,
                   scr_queue>>
    /\ UNCHANGED others_screen

\* InstanceScreen.on_mount
ScreenOnMount ==
    /\ scr_pc = "mount"
    /\ IF scr_live /\ scr_instance # None THEN
           /\ phase_handler' = TRUE
           /\ lifecycle_handler' = TRUE
           /\ scr_adds' = [phase |-> scr_adds.phase + 1, lifecycle |-> scr_adds.lifecycle + 1]
       ELSE UNCHANGED <<phase_handler, lifecycle_handler, scr_adds>>
    /\ scr_pc' = "mounted"
    /\ UNCHANGED <<scr_live, scr_instance, scr_job_run, scr_removals, scr_queue>>
    /\ UNCHANGED others_screen

\* Mutant: the handlers are removed whether or not they are still set.
Unsubscribe_always ==
    /\ phase_handler' = FALSE
    /\ lifecycle_handler' = FALSE
    /\ scr_removals' = IF scr_instance # None
                       THEN [phase |-> scr_removals.phase + 1, lifecycle |-> scr_removals.lifecycle + 1]
                       ELSE scr_removals

\* InstanceScreen._unsubscribe
Unsubscribe ==
    /\ phase_handler' = FALSE
    /\ lifecycle_handler' = FALSE
    /\ scr_removals' = IF scr_instance # None
                       THEN [phase |-> scr_removals.phase + (IF phase_handler THEN 1 ELSE 0),
                             lifecycle |-> scr_removals.lifecycle + (IF lifecycle_handler THEN 1 ELSE 0)]
                       ELSE scr_removals

\* InstanceScreen._on_phase_event / _on_lifecycle_event, run on the UI loop
ScreenOnEvent ==
    /\ scr_pc = "mounted"
    /\ scr_queue # <<>>
    /\ scr_queue' = Tail(scr_queue)
    /\ LET event == Head(scr_queue)
       IN  /\ scr_job_run' = event.job_run
           /\ IF event.cls = "InstanceLifecycleEvent" /\ is_ended(event.job_run)
              THEN Unsubscribe
              ELSE UNCHANGED <<phase_handler, lifecycle_handler, scr_removals>>
    /\ UNCHANGED <<scr_pc, scr_live, scr_instance, scr_adds>>
    /\ UNCHANGED others_screen

\* action_dismiss, then InstanceScreen.on_unmount
ScreenOnUnmount ==
    /\ scr_pc = "mounted"
    /\ Unsubscribe
    /\ scr_pc' = "unmounted"
    /\ UNCHANGED <<scr_live, scr_instance, scr_job_run, scr_adds, scr_queue>>
    /\ UNCHANGED others_screen

NextScreen ==
    ScreenGetInstances \/ ScreenInit \/ ScreenOnMount \/ ScreenOnEvent \/ ScreenOnUnmount

(***************************************************************************)
(* One of the TUI views runs: the dashboard, a selector app or the         *)
(* instance screen, against the backend.                                   *)
(***************************************************************************)
InitTui ==
    /\ InitStore /\ InitHist /\ IdleCmds
    /\ cmd = None
    /\ pc = "idle"
    /\ backend \in [MatchedIds -> {"NONE", "RUNNING", "DETACHED"}]
    /\ observer = FALSE
    /\ event_queue = <<>>
    /\ first = TRUE
    /\ display = <<>>
    /\ printed = <<>>
    /\ snap_taken = FALSE
    /\ missed = 0
    /\ exc = None
    /\ removals = 0
    /\ tick_log = EmptyLog
    /\ dash_instances = {}
    /\ dash_history = {}
    /\ instances = {}
    /\ live_runs = EmptyDict
    /\ history_runs = EmptyDict
    /\ env_handler = FALSE
    /\ ui_queue = <<>>
    /\ selected_key = None
    /\ active_table = EmptyDict
    /\ history_table = EmptyDict
    /\ runs = EmptyDict
    /\ sel_table = EmptyDict
    /\ env_adds = 0
    /\ env_removals = 0
    /\ scr_live = FALSE
    /\ scr_instance = None
    /\ scr_job_run = NoRun
    /\ phase_handler = FALSE
    /\ lifecycle_handler = FALSE
    /\ scr_adds = [phase |-> 0, lifecycle |-> 0]
    /\ scr_removals = [phase |-> 0, lifecycle |-> 0]
    /\ scr_queue = <<>>
    /\ \/ dpc = "get_instances" /\ selector = None /\ sel_pc = "idle" /\ scr_pc = "idle"
       \/ dpc = "idle" /\ selector \in {"live", "combined"} /\ sel_pc = "get_instances" /\ scr_pc = "idle"
       \/ dpc = "idle" /\ selector = None /\ sel_pc = "idle" /\ scr_pc = "get_instances"

NextTui ==
    \/ BackendCreate \/ BackendStart \/ BackendEnd \/ BackendDetach
    \/ DashGetInstances \/ DashReadHistory \/ DashInit \/ DashOnMount
    \/ DashOnEvent \/ DashRowSelected \/ DashDetailDismissed \/ DashOnUnmount
    \/ NextSel
    \/ NextScreen

SpecTui == InitTui /\ [][NextTui]_vars

\* The UI loop runs the mount hooks and the scheduled callbacks.
UiLoop ==
    \/ ScreenInit \/ ScreenOnMount \/ ScreenOnEvent

SpecTuiFair == SpecTui /\ WF_vars(UiLoop)

(***************************************************************************)
(* tail (cmd/tail.py): the main thread prints the initial tail of every    *)
(* matching instance and, with --follow, hands the last printed ordinals   *)
(* over to TailPrint; observer threads deliver the output events.          *)
(***************************************************************************)
MaxLines == 2

TailOrder == <<"a", "x">>

\* any(1 for c in self.metadata_criteria if c(instance))
TailMatches(i) == i \in MatchedIds

\* An entry of the terminal: a line of an instance (ordinal >= 1) or the
\* header of an instance (ordinal 0), printed by the main thread ("tail")
\* or by instance_output_update ("event").
Printed(i, k, by) == [instance |-> i, ordinal |-> k, by |-> by]

\* print_instance_header(inst) followed by print_line for the lines 1..n
TailLines(i, n) ==
    <<Printed(i, 0, "tail")>> \o [k \in 1..n |-> Printed(i, k, "tail")]

\* instance_to_last_line is a defaultdict(lambda: 0)
LastLine(d, i) == IF i \in Keys(d) THEN d[i] ELSE 0

\* conn.add_observer_output(tail_print)
TailAddObserver ==
    /\ tail_pc = "add_observer"
    /\ tail_observer' = TRUE
    /\ tail_pc' = "open"
    /\ UNCHANGED <<follow, tail_state, output, conn_open, tail_events, tail_instances,
                   instance_to_last_line, last_printed_instance, latch, tp_last_line, tp_last_printed,
                   tail_printed, at_open, tail_fetched, tail_skipped>>
    /\ UNCHANGED others_tail

\* conn.open(): output events are delivered from now on.
TailOpen ==
    /\ tail_pc = "open"
    /\ conn_open' = TRUE
    /\ at_open' = output
    /\ tail_pc' = "get_instances"
    /\ UNCHANGED <<follow, tail_state, output, tail_observer, tail_events, tail_instances,
                   instance_to_last_line, last_printed_instance, latch, tp_last_line, tp_last_printed,
                   tail_printed, tail_fetched, tail_skipped>>
    /\ UNCHANGED others_tail

\* conn.get_instances(JobRunCriteria(metadata_criteria=metadata_criteria))
TailGetInstances ==
    /\ tail_pc = "get_instances"
    /\ tail_instances' = SelectSeq(TailOrder, LAMBDA i : tail_state[i] = "running" /\ TailMatches(i))
    /\ tail_fetched' = SeqToSet(tail_instances')
    /\ tail_pc' = "read_tail"
    /\ UNCHANGED <<follow, tail_state, output, tail_observer, conn_open, tail_events,
                   instance_to_last_line, last_printed_instance, latch, tp_last_line, tp_last_printed,
                   tail_printed, at_open, tail_skipped>>
    /\ UNCHANGED others_tail

\* One pass of the for loop: the header, then every line of
\* inst.output.tail(); the two locals are assigned per printed line.
TailReadTail ==
    /\ tail_pc = "read_tail"
    /\ tail_instances # <<>>
    /\ LET inst == Head(tail_instances)
           n == output[inst]
       IN /\ tail_printed' = tail_printed \o TailLines(inst, n)
          /\ instance_to_last_line' =
                IF n > 0 THEN Put(instance_to_last_line, inst, n) ELSE instance_to_last_line
          /\ last_printed_instance' = IF n > 0 THEN inst ELSE last_printed_instance
    /\ tail_instances' = Tail(tail_instances)
    /\ UNCHANGED <<tail_pc, follow, tail_state, output, tail_observer, conn_open, tail_events,
                   latch, tp_last_line, tp_last_printed, at_open, tail_fetched, tail_skipped>>
    /\ UNCHANGED others_tail

\* finally: if not follow: conn.close(); return
TailFinally ==
    /\ tail_pc = "read_tail"
    /\ tail_instances = <<>>
    /\ IF follow
       THEN tail_pc' = "release" /\ UNCHANGED conn_open
       ELSE tail_pc' = "done" /\ conn_open' = FALSE
    /\ UNCHANGED <<follow, tail_state, output, tail_observer, tail_events, tail_instances,
                   instance_to_last_line, last_printed_instance, latch, tp_last_line, tp_last_printed,
                   tail_printed, at_open, tail_fetched, tail_skipped>>
    /\ UNCHANGED others_tail

\* tail_print.release(last_printed_instance, instance_to_last_line)
TailRelease ==
    /\ tail_pc = "release"
    /\ tp_last_printed' = last_printed_instance
    /\ tp_last_line' = instance_to_last_line
    /\ latch' = TRUE
    /\ tail_pc' = "following"
    /\ UNCHANGED <<follow, tail_state, output, tail_observer, conn_open, tail_events, tail_instances,
                   instance_to_last_line, last_printed_instance, tail_printed, at_open, tail_fetched,
                   tail_skipped>>
    /\ UNCHANGED others_tail

\* SIGINT or SIGTERM: _close_connector
TailCloseConnector ==
    /\ tail_pc = "following"
    /\ conn_open' = FALSE
    /\ tail_pc' = "done"
    /\ UNCHANGED <<follow, tail_state, output, tail_observer, tail_events, tail_instances,
                   instance_to_last_line, last_printed_instance, latch, tp_last_line, tp_last_printed,
                   tail_printed, at_open, tail_fetched, tail_skipped>>
    /\ UNCHANGED others_tail

\* The body of instance_output_update once the latch lets it through, for
\* the k-th waiting event.
TailUpdate(k) ==
    LET event == tail_events[k]
        i == event.instance
        last_line == LastLine(tp_last_line, i)
    IN /\ tail_events' = [j \in 1..(Len(tail_events) - 1) |->
                            IF j < k THEN tail_events[j] ELSE tail_events[j + 1]]
       /\ tp_last_line' = Put(tp_last_line, i, last_line)
       /\ IF event.ordinal <= last_line \/ ~TailMatches(i)
          THEN /\ tail_skipped' = tail_skipped \cup {event}
               /\ UNCHANGED <<tp_last_printed, tail_printed>>
          ELSE /\ tail_printed' = tail_printed
                      \o (IF tp_last_printed # i THEN <<Printed(i, 0, "event")>> ELSE <<>>)
                      \o <<Printed(i, event.ordinal, "event")>>
               /\ tp_last_printed' = i
               /\ UNCHANGED tail_skipped
       /\ UNCHANGED <<tail_pc, follow, tail_state, output, tail_observer, conn_open, tail_instances,
                      instance_to_last_line, last_printed_instance, latch, at_open, tail_fetched>>
       /\ UNCHANGED others_tail

\* Mutant: instance_output_update does not wait for the latch.
TailOutputUpdate_nolatch ==
    \E k \in 1..Len(tail_events) : TailUpdate(k)

\* TailPrint.instance_output_update on an observer thread: self.latch.wait(),
\* then the body.  The threads are released in no particular order.
TailOutputUpdate ==
    /\ latch
    /\ \E k \in 1..Len(tail_events) : TailUpdate(k)

\* The environment: an instance starts, writes a line (an output event goes
\* to the observers of an open connector), ends.
TailInstanceStarts ==
    \E i \in Ids :
        /\ tail_state[i] = "none"
        /\ tail_state' = [tail_state EXCEPT ![i] = "running"]
        /\ UNCHANGED <<tail_pc, follow, output, tail_observer, conn_open, tail_events, tail_instances,
                       instance_to_last_line, last_printed_instance, latch, tp_last_line,
                       tp_last_printed, tail_printed, at_open, tail_fetched, tail_skipped>>
        /\ UNCHANGED others_tail

TailInstanceWrites ==
    \E i \in Ids :
        /\ tail_state[i] = "running"
        /\ output[i] < MaxLines
        /\ output' = [output EXCEPT ![i] = @ + 1]
        /\ tail_events' =
              IF tail_observer /\ conn_open
              THEN Append(tail_events, [instance |-> i, ordinal |-> output[i] + 1])
              ELSE tail_events
        /\ UNCHANGED <<tail_pc, follow, tail_state, tail_observer, conn_open, tail_instances,
                       instance_to_last_line, last_printed_instance, latch, tp_last_line,
                       tp_last_printed, tail_printed, at_open, tail_fetched, tail_skipped>>
        /\ UNCHANGED others_tail

TailInstanceEnds ==
    \E i \in Ids :
        /\ tail_state[i] = "running"
        /\ tail_state' = [tail_state EXCEPT ![i] = "ended"]
        /\ UNCHANGED <<tail_pc, follow, output, tail_observer, conn_open, tail_events, tail_instances,
                       instance_to_last_line, last_printed_instance, latch, tp_last_line,
                       tp_last_printed, tail_printed, at_open, tail_fetched, tail_skipped>>
        /\ UNCHANGED others_tail

InitTail ==
    /\ InitStore /\ InitHist /\ IdleRun /\ IdleDash /\ IdleStop /\ IdleApprove /\ IdleConv
    /\ IdleSel /\ IdleScr
    /\ tail_pc = "add_observer"
    /\ follow \in BOOLEAN
    /\ tail_state = [i \in Ids |-> "none"]
    /\ output = [i \in Ids |-> 0]
    /\ tail_observer = FALSE
    /\ conn_open = FALSE
    /\ tail_events = <<>>
    /\ tail_instances = <<>>
    /\ instance_to_last_line = EmptyDict
    /\ last_printed_instance = None
    /\ latch = FALSE
    /\ tp_last_line = EmptyDict
    /\ tp_last_printed = None
    /\ tail_printed = <<>>
    /\ at_open = [i \in Ids |-> 0]
    /\ tail_fetched = {}
    /\ tail_skipped = {}

NextTail ==
    \/ TailAddObserver
    \/ TailOpen
    \/ TailGetInstances
    \/ TailReadTail
    \/ TailFinally
    \/ TailRelease
    \/ TailCloseConnector
    \/ TailOutputUpdate
    \/ TailInstanceStarts
    \/ TailInstanceWrites
    \/ TailInstanceEnds

SpecTail == InitTail /\ [][NextTail]_vars

(***************************************************************************)
(* The store of LiveView while the environment settles: events and polls   *)
(* are applied in any order until, at some point, no further event arrives *)
(* and every poll returns the same runs; from then on only the tick loop   *)
(* of LiveView.run acts (_poll_if_due, _prune_ended).                      *)
(***************************************************************************)
MaxPrefix == 10

\* The clock stops two poll intervals after the latest point of settling.
Horizon == MaxPrefix + 2 * POLL_INTERVAL_SECONDS

\* The ids whose ended entry _prune_ended removes now.
Expired == Keys(ended_runs) \ Retained(ended_runs, now)

\* Before the environment settles: any event is applied.
ConvEvent ==
    /\ ~steady.on
    /\ \E e \in Events : ProcessEvent(e)
    /\ UNCHANGED <<last_poll, now, steady>>
    /\ UNCHANGED others_conv

\* Before the environment settles: a poll with any result.
ConvPoll ==
    /\ ~steady.on
    /\ \E rs \in ActiveRunsResults : RefreshActiveRuns(rs)
    /\ UNCHANGED <<now, steady>>
    /\ UNCHANGED others_conv

\* Before the environment settles: _prune_ended.
ConvPrune ==
    /\ ~steady.on
    /\ PruneEnded
    /\ steady' = [steady EXCEPT !.pruned = @ \cup Expired]
    /\ UNCHANGED <<last_poll, now>>
    /\ UNCHANGED others_conv

\* Before the environment settles: time passes.
ConvTick ==
    /\ ~steady.on
    /\ now < MaxPrefix
    /\ now' = now + 1
    /\ UNCHANGED <<store, last_poll, steady>>
    /\ UNCHANGED others_conv

\* The environment settles: from now on conn.get_active_runs returns rs.
Settle ==
    /\ ~steady.on
    /\ \E rs \in ActiveRunsResults : steady' = [steady EXCEPT !.on = TRUE, !.runs = rs, !.was = KeySets]
    /\ UNCHANGED <<store, last_poll, now>>
    /\ UNCHANGED others_conv

\* if now - self._last_poll >= POLL_INTERVAL_SECONDS
PollDue == now - last_poll >= POLL_INTERVAL_SECONDS

\* _poll_if_due of a tick after the environment has settled.
SteadyPoll ==
    /\ steady.on
    /\ PollDue
    /\ RefreshActiveRuns(steady.runs)
    /\ UNCHANGED <<now, steady>>
    /\ UNCHANGED others_conv

\* _prune_ended of a tick after the environment has settled.
SteadyPrune ==
    /\ steady.on
    /\ PruneEnded
    /\ steady' = [steady EXCEPT !.pruned = @ \cup Expired]
    /\ UNCHANGED <<last_poll, now>>
    /\ UNCHANGED others_conv

\* Time passes between two ticks.  A tick waits at most one second for an
\* event, so a poll that is due and an entry whose retention is over are
\* handled within the second: before the clock moves on.
SteadyTick ==
    /\ steady.on
    /\ ~PollDue
    /\ Expired = {}
    /\ now < Horizon
    /\ now' = now + 1
    /\ UNCHANGED <<store, last_poll, steady>>
    /\ UNCHANGED others_conv

InitConv ==
    /\ InitStore /\ InitHist /\ IdleRun /\ IdleDash /\ IdleStop /\ IdleApprove /\ IdleTail
    /\ IdleSel /\ IdleScr
    /\ steady = Unsettled

TickLoop == SteadyPoll \/ SteadyPrune \/ SteadyTick

NextConv == ConvEvent \/ ConvPoll \/ ConvPrune \/ ConvTick \/ Settle \/ SteadyPoll \/ SteadyPrune \/ SteadyTick

\* The tick loop keeps running.
SpecConv == InitConv /\ [][NextConv]_vars /\ WF_vars(TickLoop)

(***************************************************************************)
(* Steps of the store-level specification, told apart by the history: a    *)
(* step that changes the state with the clock unchanged is a method call,  *)
(* and op' names the method.                                               *)
(***************************************************************************)
EventStep(e) == op' = [kind |-> "event", arg |-> e] /\ now' = now
PollStep(rs) == op' = [kind |-> "poll", arg |-> rs] /\ now' = now
PruneStep == op'.kind = "prune" /\ now' = now

\* C1: once an id is in _ended_runs (and no longer in _active_runs), no
\* later _process_event or _refresh_active_runs call puts it back into
\* _active_runs while it is still retained in _ended_runs.
C1_TerminalInvariant ==
    [][\A i \in Ids :
        (/\ i \in Keys(ended_runs)
         /\ i \notin Keys(active_runs)
         /\ op'.kind \in {"event", "poll"})
        => i \notin Keys(active_runs')]_vars

\* C2: in every reachable state no InstanceID is a key of both
\* _active_runs and _ended_runs.
C2_ActiveEndedDisjoint ==
    Keys(active_runs) \cap Keys(ended_runs) = {}

\* C3: applying an event that is not a root-phase ENDED transition, for an
\* id that is in _ended_runs, leaves _active_runs, _missing_runs and
\* _ended_runs unchanged.
C3_LateEventDropped ==
    [][\A e \in Events :
        (/\ EventStep(e)
         /\ ~IsRootEnded(e)
         /\ EventId(e) \in Keys(ended_runs))
        => UNCHANGED store]_vars

\* A non-ENDED event carrying a matching run was applied while its id was
\* retained in _ended_runs, and the id is not in _active_runs.
C3_Witness ==
    /\ op.kind = "event"
    /\ HasJobRun(op.arg)
    /\ run_match(op.arg.job_run)
    /\ ~IsRootEnded(op.arg)
    /\ EventId(op.arg) \in before.ended
    /\ EventId(op.arg) \in Keys(ended_runs)
    /\ EventId(op.arg) \notin Keys(active_runs)

\* C4: LiveView.run and listen register their observer before the first
\* get_active_runs call is issued, so while the command runs the observer
\* is registered from the first snapshot on and no event the backend emits
\* after that snapshot fails to be enqueued.
C4_RegisteredBeforeFirstPoll ==
    /\ (snap_taken /\ pc # "done") => observer
    /\ missed = 0

\* LiveView.run has taken its first snapshot with an instance RUNNING, the
\* instance has ended since, and its root-phase ENDED event is in the queue.
C4_Witness ==
    /\ cmd = "live"
    /\ pc = "live"
    /\ snap_taken
    /\ \E i \in Keys(active_runs) :
        /\ active_runs[i].stage = "RUNNING"
        /\ backend[i] = "ENDED"
        /\ \E k \in 1..Len(event_queue) : event_queue[k] = RootPhaseEvent(i, "ENDED")

\* C5: the dashboard's handler is subscribed before the initial instances
\* are fetched, so an ENDED transition after the initial fetch is never
\* missed: once the screen is mounted and no event is waiting on the UI
\* loop, no instance that has ended is kept in _live_runs with a not-ended
\* snapshot.
C5_EndedNeverMissed ==
    (dpc = "mounted" /\ ui_queue = <<>>)
    => \A i \in Keys(live_runs) :
        ~is_ended(live_runs[i]) => backend[i] \notin {"ENDED", "DETACHED"}

C7_NoPrematureEviction ==
    [][\A i \in Keys(active_runs) :
        i \notin Keys(active_runs')
        => \/ (op'.kind = "event" /\ IsRootEnded(op'.arg) /\ EventId(op'.arg) = i)
           \/ /\ op'.kind = "poll"
              /\ i \in Keys(missing_runs)
              /\ now - missing_runs[i] >= MISSING_GRACE_SECONDS]_vars

\* A poll that did not report an active id recorded it as missing and left
\* it in _active_runs.
C7_Witness ==
    /\ op.kind = "poll"
    /\ \E i \in before.active \ before.missing :
        /\ i \notin PolledIds(op.arg)
        /\ i \in Keys(missing_runs)
        /\ missing_runs[i] = last_poll
        /\ i \in Keys(active_runs)

\* C8: an id put into _ended_runs at time T has a row in the table while
\* now < T + ENDED_RETENTION_SECONDS, and has no row once _prune_ended has
\* run at a time now >= T + ENDED_RETENTION_SECONDS, whatever events and
\* polls occurred in between.
C8_RetentionWindow ==
    [][/\ \A i \in Keys(ended_runs) :
            now' - ended_runs[i][2] < ENDED_RETENTION_SECONDS
            => i \in RowIds(BuildTable)'
       /\ PruneStep =>
            \A i \in Keys(ended_runs) :
                now - ended_runs[i][2] >= ENDED_RETENTION_SECONDS
                => i \notin RowIds(BuildTable)']_vars

C10_TransientGap ==
    [][/\ \A rs \in ActiveRunsResults :
            PollStep(rs) =>
                /\ \A r \in rs :
                    /\ r.instance_id \in Keys(active_runs')
                    /\ active_runs'[r.instance_id] = r
                    /\ r.instance_id \notin Keys(missing_runs')
                    /\ r.instance_id \in RowIds(BuildTable)'
                /\ ended_runs' = ended_runs
       /\ \A i \in Keys(missing_runs') :
            (op'.kind = "poll" /\ missing_runs'[i] = last_poll')
            => (i \in Keys(active_runs') /\ i \in RowIds(BuildTable)')]_vars

\* An id that the previous poll recorded as missing was reported again by
\* this poll: it is active with the polled run, not missing and not ended.
C10_Witness ==
    /\ op.kind = "poll"
    /\ \E r \in op.arg :
        /\ r.instance_id \in before.missing
        /\ r.instance_id \in Keys(active_runs)
        /\ active_runs[r.instance_id] = r
        /\ r.instance_id \notin Keys(missing_runs)
        /\ r.instance_id \notin Keys(ended_runs)

\* C11: a get_active_runs call that raises during a due poll leaves
\* _active_runs, _missing_runs and _ended_runs as they were, and the
\* exception is handled inside the tick: it does not leave the loop, and the
\* tick goes on with _prune_ended.
C11_FailedPollSurvived ==
    [][(cmd = "live" /\ pc = "poll_if_due") =>
        /\ exc' = "TransportError" => UNCHANGED store
        /\ (pc' # pc /\ exc' # "KeyboardInterrupt") => (pc' = "prune" /\ exc' = None)]_vars

C13_EventEffect ==
    [][\A e \in Events :
        (EventStep(e) /\ HasJobRun(e) /\ EventId(e) \in MatchedIds) =>
            LET i == e.job_run.instance_id IN
            IF e.cls = "InstancePhaseEvent" /\ e.is_root_phase /\ e.new_stage = "ENDED"
            THEN /\ active_runs' = Pop(active_runs, i)
                 /\ missing_runs' = Pop(missing_runs, i)
                 /\ ended_runs' = Put(ended_runs, i, <<e.job_run, now>>)
            ELSE /\ ended_runs' = ended_runs
                 /\ i \notin Keys(ended_runs) =>
                        /\ active_runs' = Put(active_runs, i, e.job_run)
                        /\ missing_runs' = Pop(missing_runs, i)]_vars

\* A root-phase ENDED event was applied to an id that was active and
\* missing: the id is now retained in _ended_runs with the time of the
\* event and is neither active nor missing.
C13_Witness ==
    /\ op.kind = "event"
    /\ HasJobRun(op.arg)
    /\ op.arg.cls = "InstancePhaseEvent" /\ op.arg.is_root_phase /\ op.arg.new_stage = "ENDED"
    /\ EventId(op.arg) \in before.active \cap before.missing
    /\ EventId(op.arg) \in Keys(ended_runs)
    /\ ended_runs[EventId(op.arg)] = <<op.arg.job_run, now>>
    /\ EventId(op.arg) \notin Keys(active_runs) \cup Keys(missing_runs)

\* C14: an event without a job_run, or with a run the filter rejects (a
\* root-phase ENDED event included), leaves _active_runs, _missing_runs and
\* _ended_runs unchanged.
C14_IrrelevantEventDropped ==
    [][\A e \in Events :
        (EventStep(e) /\ (~HasJobRun(e) \/ EventId(e) \notin MatchedIds))
        => UNCHANGED store]_vars

\* A root-phase ENDED event of a run the filter rejects was applied while
\* the partitions held entries, and its id is in no partition.
C14_Witness ==
    /\ op.kind = "event"
    /\ HasJobRun(op.arg)
    /\ EventId(op.arg) \notin MatchedIds
    /\ op.arg.cls = "InstancePhaseEvent" /\ op.arg.new_stage = "ENDED"
    /\ Keys(active_runs) # {}
    /\ Keys(ended_runs) # {}
    /\ EventId(op.arg) \notin Keys(active_runs) \cup Keys(missing_runs) \cup Keys(ended_runs)

\* C15: in every reachable state the keys of _missing_runs are keys of
\* _active_runs and none of them is a key of _ended_runs.
C15_MissingOnlyActive ==
    /\ Keys(missing_runs) \subseteq Keys(active_runs)
    /\ Keys(missing_runs) \cap Keys(ended_runs) = {}

\* C20: while LiveView drains, an id that is in none of the three
\* partitions is added to _active_runs only when the backend still holds
\* the run.
C20_UnseenIdConfirmed ==
    [][\A i \in MatchedIds :
        (/\ cmd = "live" /\ pc = "drain"
         /\ i \notin Keys(active_runs) \cup Keys(missing_runs) \cup Keys(ended_runs)
         /\ i \in Keys(active_runs'))
        => backend[i] \in {"CREATED", "RUNNING", "ENDED"}]_vars

\* C16: LiveView.run leaves only through the finally clause, which removes
\* the registered observer, once; a KeyboardInterrupt raised inside the
\* tick loop is caught there and run returns without an exception, while an
\* exception of the first poll or of a tick reaches the finally clause too.
C16_CleanShutdown ==
    [][cmd = "live" =>
        /\ (pc # "done" /\ pc' = "done") => (pc = "finally" /\ observer /\ ~observer' /\ removals' = 1)
        /\ removals' # removals => pc' = "done"
        /\ (observer /\ ~observer') => removals' = removals + 1
        /\ (exc = None /\ exc' # None) => pc' = (IF pc \in LoopPcs THEN "except" ELSE "finally")
        /\ (pc = "except" /\ pc' # pc) =>
                /\ pc' = "finally"
                /\ exc' = (IF exc = "KeyboardInterrupt" THEN None ELSE exc)]_vars

\* run has returned after a KeyboardInterrupt inside the tick loop: no
\* exception left run, the observer is removed and was removed once.
C16_Witness ==
    /\ cmd = "live"
    /\ pc = "done"
    /\ exc = None
    /\ ~observer
    /\ removals = 1
    /\ Keys(active_runs) # {}

\* C17: while LiveView runs, the queue changes only by the observer
\* appending events or by the drain removing its head and applying that
\* event to the store, so every event is applied once and in the order of
\* the queue; a get that finds the queue empty takes 1 second when it is
\* the first of the cycle and no time otherwise, changes no partition and
\* passes on to the poll check.
C17_DrainSemantics ==
    [][cmd = "live" =>
        /\ event_queue' # event_queue =>
            \/ /\ Len(event_queue') > Len(event_queue)
               /\ SubSeq(event_queue', 1, Len(event_queue)) = event_queue
            \/ /\ pc = "drain"
               /\ event_queue # <<>>
               /\ event_queue' = Tail(event_queue)
               /\ ProcessEvent(Head(event_queue))
               /\ now' = now
               /\ pc' = "drain"
               /\ ~first'
        /\ (pc = "drain" /\ store' # store) => event_queue' = Tail(event_queue)
        /\ (pc = "drain" /\ pc' = "poll_if_due") =>
            /\ event_queue = <<>>
            /\ UNCHANGED store
            /\ now' = (IF first THEN now + 1 ELSE now)]_vars

\* A drain cycle has applied an event that created an active entry and
\* finds a further event in the queue, which it pops without blocking.
C17_Witness ==
    /\ cmd = "live"
    /\ pc = "drain"
    /\ ~first
    /\ Len(event_queue) >= 2
    /\ Keys(active_runs) # {}

\* C18: under fair scheduling of the main thread every drain cycle ends and
\* the tick reaches the rebuild of the table, also while running instances
\* keep emitting events.
C18_DrainBounded ==
    (cmd = "live" /\ pc = "drain" /\ now < MaxTime) ~> (pc = "update")

\* C19: a step of a notification thread (the backend emits events) only
\* appends the events to the queue of the registered handler or to the
\* calls scheduled on the UI loop and changes neither LiveView's store,
\* position and display nor the dashboard's maps and tables; the store
\* changes only in steps of the main thread, each step being exactly one
\* _process_event, _refresh_active_runs or _prune_ended call; the
\* dashboard's maps change only in steps of the UI loop.
C19_SingleConsumer ==
    [][/\ backend' # backend =>
            /\ UNCHANGED <<store, last_poll, display, pc, first>>
            /\ UNCHANGED <<dpc, instances, live_runs, history_runs, active_table, history_table>>
            /\ Len(event_queue') >= Len(event_queue)
            /\ SubSeq(event_queue', 1, Len(event_queue)) = event_queue
            /\ Len(ui_queue') >= Len(ui_queue)
            /\ SubSeq(ui_queue', 1, Len(ui_queue)) = ui_queue
       /\ store' # store =>
            /\ cmd = "live"
            /\ backend' = backend
            /\ \/ pc = "drain" /\ event_queue # <<>> /\ ProcessEvent(Head(event_queue))
               \/ /\ pc \in {"first_poll", "poll_if_due"}
                  /\ \E rs \in ActiveRunsResults : RefreshActiveRuns(rs)
               \/ pc = "prune" /\ PruneEnded
       /\ <<instances, live_runs, history_runs, active_table, history_table>>'
                # <<instances, live_runs, history_runs, active_table, history_table>> =>
            /\ dpc \in {"init", "mount", "mounted", "detail"}
            /\ backend' = backend]_vars

\* The main thread of LiveView is between two store operations of a tick
\* while an event that a notification thread enqueued waits in the queue.
C19_Witness ==
    /\ cmd = "live"
    /\ pc = "prune"
    /\ observer
    /\ event_queue # <<>>
    /\ Keys(active_runs) # {}

\* C21: the snapshot lists every id of _active_runs and _ended_runs once:
\* _sorted_runs and _build_table have one entry per id of the union of the
\* two key sets, no entry for another id and no id twice.
C21_SnapshotOneRowPerId ==
    /\ RowIds(BuildTable) = Keys(active_runs) \cup Keys(ended_runs)
    /\ Len(SortedRuns) = Cardinality(Keys(active_runs) \cup Keys(ended_runs))
    /\ Len(BuildTable) = Len(SortedRuns)

StopCalls(k) == {c \in 1..Len(stop_log) : stop_log[c].k = k}

\* C23 as stated: when the command has finished, stop() was called on
\* every instance returned for a pattern and on no other instance, and the
\* total is the number of stop() calls that succeeded.
C23_EveryMatchedStopped ==
    stop_pc = "done" =>
        /\ \A k \in 1..Len(fetched) :
            \A i \in fetched[k].instances : \E c \in StopCalls(k) : stop_log[c].instance = i
        /\ \A c \in 1..Len(stop_log) :
            stop_log[c].instance \in fetched[stop_log[c].k].instances
        /\ total_stopped = Cardinality({c \in 1..Len(stop_log) : stop_log[c].ok})

\* C23: when the command has finished, stop() was called once on every
\* instance returned for a pattern that was run with --force or confirmed
\* by the user, whether or not an earlier call raised TargetNotFoundError;
\* no stop() was called for a declined pattern, none on an instance that
\* was not returned for the pattern, none on an instance that no pattern
\* matches, and the total is the number of stop() calls that succeeded.
C23_ConfirmedMatchedStopped ==
    stop_pc = "done" =>
        /\ \A k \in 1..Len(fetched) :
            /\ fetched[k].go =>
                \A i \in fetched[k].instances :
                    Cardinality({c \in StopCalls(k) : stop_log[c].instance = i}) = 1
            /\ ~fetched[k].go => StopCalls(k) = {}
        /\ \A c \in 1..Len(stop_log) :
            /\ stop_log[c].instance \in fetched[stop_log[c].k].instances
            /\ FnMatch(fetched[stop_log[c].k].pattern, stop_log[c].instance)
        /\ \A i \in StopIds :
            (\A k \in 1..Len(fetched) : ~FnMatch(fetched[k].pattern, i)) => inst_state[i] # "stopped"
        /\ total_stopped = Cardinality({c \in 1..Len(stop_log) : stop_log[c].ok})
        /\ force => \A k \in 1..Len(fetched) : fetched[k].go \/ fetched[k].instances = {}

\* The command has finished; for one pattern a stop() call raised
\* TargetNotFoundError and a later instance of the same pattern was
\* stopped, and the instance that no pattern matches still runs.
C23_Witness ==
    /\ stop_pc = "done"
    /\ \E c1, c2 \in 1..Len(stop_log) :
        /\ c1 < c2
        /\ stop_log[c1].k = stop_log[c2].k
        /\ ~stop_log[c1].ok
        /\ stop_log[c2].ok
    /\ total_stopped = 1
    /\ inst_state["to_keep"] = "running"

\* The config resolve_env_configs is to return for the local environment:
\* the configured one when the file defines it, the default otherwise.
LocalConfig == IF DEFAULT_LOCAL_ENVIRONMENT \in configured THEN "configured" ELSE "default"

\* C24: when resolve_env_configs returns, (1) with no id given the result
\* holds every configured environment and local, (2) with local among the
\* given ids it holds exactly the given ids, each as loaded from the
\* configuration, local by default only when the configuration does not
\* define it, (3) with ids given without local it holds exactly the given
\* ids as loaded.
C24_DocumentedCases ==
    (ap_pc = "resolved" /\ env_configs.raised = None) =>
        LET res == env_configs.configs
        IN  /\ env_ids = {} =>
                /\ Keys(res) = configured \cup {DEFAULT_LOCAL_ENVIRONMENT}
                /\ \A i \in configured : res[i] = "configured"
                /\ res[DEFAULT_LOCAL_ENVIRONMENT] = LocalConfig
            /\ DEFAULT_LOCAL_ENVIRONMENT \in env_ids =>
                /\ Keys(res) = env_ids
                /\ \A i \in env_ids \ {DEFAULT_LOCAL_ENVIRONMENT} : res[i] = "configured"
                /\ res[DEFAULT_LOCAL_ENVIRONMENT] = LocalConfig
            /\ (env_ids # {} /\ DEFAULT_LOCAL_ENVIRONMENT \notin env_ids) =>
                /\ Keys(res) = env_ids
                /\ \A i \in env_ids : res[i] = "configured"

\* C28: in the dashboard and in the combined selector no key is in
\* _live_runs and in _history_runs.
C28_LiveHistoryDisjoint ==
    (dpc # "idle" \/ selector = "combined") =>
        Keys(live_runs) \cap Keys(history_runs) = {}

\* C25: a view registers its handler at most once and never removes a
\* handler more often than it registered it; the handler is registered
\* exactly while the view holds it; a dashboard or selector that has been
\* unmounted has registered and removed its handler once; an unmounted
\* live InstanceScreen has registered and removed each of its two handlers
\* once, whether an ended lifecycle event or the unmount removed them; a
\* historical InstanceScreen never registers or removes a handler.
C25_DeregisteredOnce ==
    /\ env_removals <= env_adds /\ env_adds <= 1
    /\ env_handler <=> (env_adds = env_removals + 1)
    /\ (dpc = "done" \/ sel_pc = "done") => (env_adds = 1 /\ env_removals = 1)
    /\ scr_removals.phase <= scr_adds.phase /\ scr_adds.phase <= 1
    /\ scr_removals.lifecycle <= scr_adds.lifecycle /\ scr_adds.lifecycle <= 1
    /\ phase_handler <=> (scr_adds.phase = scr_removals.phase + 1)
    /\ lifecycle_handler <=> (scr_adds.lifecycle = scr_removals.lifecycle + 1)
    /\ (scr_pc = "unmounted" /\ scr_live) =>
            (scr_adds = [phase |-> 1, lifecycle |-> 1] /\ scr_removals = scr_adds)
    /\ (scr_pc # "idle" /\ ~scr_live) =>
            (scr_adds = [phase |-> 0, lifecycle |-> 0] /\ scr_removals = scr_adds)

\* The ended lifecycle event has removed both handlers of a mounted live
\* InstanceScreen; the unmount is still to come.
C25_Witness ==
    /\ scr_pc = "mounted"
    /\ scr_live
    /\ is_ended(scr_job_run)
    /\ ~phase_handler /\ ~lifecycle_handler
    /\ scr_removals = [phase |-> 1, lifecycle |-> 1]

\* C29: in the dashboard and the combined selector the keys of _instances
\* are the keys of _live_runs; in the live selector the keys of _instances
\* are the keys of _runs and, once mounted, the row keys of the table, and
\* the row the user selects resolves to a live instance.
C29_HandlesCoverSnapshots ==
    /\ (dpc # "idle" \/ selector = "combined") => instances = Keys(live_runs)
    /\ selector = "live" =>
        /\ instances = Keys(runs)
        /\ sel_pc \in {"mounted", "exit", "done"} => Keys(sel_table) = Keys(runs)
        /\ (sel_pc = "exit" /\ selected_key # None) => selected_key \in instances

\* The user has selected, in the live selector, the row of an instance
\* that was discovered by an event after the initial fetch.
C29_Witness ==
    /\ selector = "live"
    /\ sel_pc = "exit"
    /\ selected_key \in instances
    /\ selected_key \notin dash_instances

\* C30: once the instance of a live InstanceScreen has ended after the
\* screen's initial snapshot, the screen eventually holds an ended snapshot
\* with both handlers removed, unless it is unmounted before.
C30_EndReflected ==
    (/\ scr_live
     /\ scr_pc \in {"mount", "mounted"}
     /\ backend[scr_instance] \in {"ENDED", "DETACHED"}
     /\ ~is_ended(scr_job_run))
    ~> (\/ scr_pc = "unmounted"
        \/ /\ scr_pc = "mounted"
           /\ is_ended(scr_job_run)
           /\ ~phase_handler /\ ~lifecycle_handler)

\* The lines of tail_printed: the instance and the ordinal of every entry
\* that is not a header.
PrintedLine(k) == <<tail_printed[k].instance, tail_printed[k].ordinal>>
LineEntries == {k \in 1..Len(tail_printed) : tail_printed[k].ordinal > 0}

\* The lines tail --follow is to show: those of a matching instance that the
\* initial fetch returned, and those a matching instance wrote after the
\* connector was opened.
LinesToShow ==
    {<<i, n>> \in Ids \X (1..MaxLines) :
        /\ TailMatches(i)
        /\ n <= output[i]
        /\ (i \in tail_fetched \/ n > at_open[i])}

\* C26: tail --follow prints no line twice; the observer is registered
\* before the connector is opened and before the tail is read; nothing is
\* printed or dropped by instance_output_update before release() has set
\* the latch; an event is dropped only when its ordinal is at most the last
\* ordinal of the initial tail or its instance does not match; and while
\* the command follows, once every delivered event has been handled, every
\* line to show is printed.
C26_OnceAndNoneLost ==
    /\ \A j, k \in LineEntries : PrintedLine(j) = PrintedLine(k) => j = k
    /\ (conn_open \/ tail_pc \in {"get_instances", "read_tail", "release", "following"}) => tail_observer
    /\ ~latch => /\ tail_skipped = {}
                 /\ \A k \in 1..Len(tail_printed) : tail_printed[k].by = "tail"
    /\ \A e \in tail_skipped :
          ~TailMatches(e.instance) \/ e.ordinal <= LastLine(instance_to_last_line, e.instance)
    /\ (tail_pc = "following" /\ tail_events = <<>>) =>
          LinesToShow \subseteq {PrintedLine(k) : k \in LineEntries}

\* --follow, every event handled: a line written between conn.open() and
\* the read of the tail was printed by the main thread and its event was
\* dropped, and a line written later was printed from its event.
C26_Witness ==
    /\ tail_pc = "following" /\ tail_events = <<>>
    /\ [instance |-> "a", ordinal |-> 1] \in tail_skipped
    /\ at_open["a"] = 0
    /\ \E k \in LineEntries : tail_printed[k] = Printed("a", 1, "tail")
    /\ \E k \in LineEntries : tail_printed[k] = Printed("a", 2, "event")

\* The store shows exactly the runs the polls return.
Converged ==
    /\ Keys(active_runs) = PolledIds(steady.runs)
    /\ missing_runs = EmptyDict
    /\ ended_runs = EmptyDict

\* C27: once no further event arrives and every poll returns the same
\* runs S, the running tick loop brings the store to: active keys = ids of
\* S, nothing missing, nothing retained as ended; and the store stays so.
C27_EventualConvergence ==
    /\ steady.on ~> Converged
    /\ [][(steady.on /\ Converged) => Converged']_vars

\* The store has converged to the empty result from a state where an id
\* was shown as active and an entry was retained as ended, which has been
\* pruned.
C27_Witness ==
    /\ steady.on
    /\ Converged
    /\ steady.runs = {}
    /\ steady.was.active # {}
    /\ steady.was.ended # {}
    /\ steady.pruned # {}

====
